---------------------------- MODULE Spec2Model ----------------------------
(***************************************************************************)
(* A model of the segmentation / transcription / speaker-assignment /      *)
(* merge pipeline of audio_transcriber.py (class AudioTranscriber).        *)
(*                                                                         *)
(* Times are integers in milliseconds.  A text is a sequence of            *)
(* one-character strings.  A speaker id of the diarization engine is a     *)
(* sequence of code points, compared as Python compares strings.           *)
(***************************************************************************)
EXTENDS Integers, Sequences, FiniteSets, TLC

VARIABLES
    asg_pc,         \* SpecAssign: "idle" | "ready" | "done"
    transcription,  \* the recognition result handed to the assigner
    diarization,    \* the diarization result handed to the assigner
    enhanced,       \* what assign_speakers_to_segments returned
    pc,             \* transcribe_file: where the call stands
    env,            \* the module's PYDUB_AVAILABLE and PYANNOTE_AVAILABLE
    enable_diarization,    \* self.enable_diarization
    diarization_pipeline,  \* self.diarization_pipeline is loaded (not None)
    job,            \* transcribe_file's arguments and the input asset
    loc,            \* transcribe_file's local variables
    audio_files,    \* the audio files on disk
    dirs,           \* the directories the call created
    text_files,     \* the transcript files on disk: path -> contents
    returned,       \* <<the path transcribe_file returned>>, <<>> before;
                    \* SpecSplit: the sentences _split_into_sentences returned
    log,            \* the calls made so far, in order
    task_status,    \* app.py: task_status, task id -> status
    task_results,   \* app.py: task_results, task id -> <<result>>, <<>> before
    threads,        \* app.py: the background threads, task id -> locals
    poll            \* app.py: one request to /api/status/<task_id>

asgVars == <<asg_pc, transcription, diarization, enhanced>>
selfVars == <<enable_diarization, diarization_pipeline>>
diskVars == <<audio_files, dirs, text_files>>
webVars == <<task_status, task_results, threads, poll>>
vars == <<asg_pc, transcription, diarization, enhanced, pc, env, enable_diarization,
          diarization_pipeline, job, loc, audio_files, dirs, text_files, returned, log,
          task_status, task_results, threads, poll>>

\* The web front end is not running.
NoWeb ==
    /\ task_status = <<>>
    /\ task_results = <<>>
    /\ threads = <<>>
    /\ poll = <<>>

-----------------------------------------------------------------------------
(* Bounds of the model.                                                    *)

MaxTurns == 2
MaxDiarSegs == 2
MaxGenericSegs == 3
\* The decoded audio holds at most this many full chunks (and a remainder).
MaxFullChunks == 2
MaxSaveSegs == 2
MaxMergeChunks == 2

-----------------------------------------------------------------------------
(* Sequences and texts.                                                    *)

SeqsUpTo(S, n) == UNION {[1..k -> S] : k \in 0..n}

RECURSIVE Flatten(_)
Flatten(ss) == IF ss = <<>> THEN <<>> ELSE Head(ss) \o Flatten(Tail(ss))

\* str.strip(): the characters Python's strip() removes that the model uses.
Whitespace == {" ", "\n", "\t"}

RECURSIVE LStrip(_)
LStrip(t) == IF t # <<>> /\ Head(t) \in Whitespace THEN LStrip(Tail(t)) ELSE t

RECURSIVE RStrip(_)
RStrip(t) ==
    IF t # <<>> /\ t[Len(t)] \in Whitespace
    THEN RStrip(SubSeq(t, 1, Len(t) - 1))
    ELSE t

Strip(t) == RStrip(LStrip(t))

\* ' '.join(parts)
RECURSIVE JoinWith(_, _)
JoinWith(parts, sep) ==
    IF parts = <<>> THEN <<>>
    ELSE IF Len(parts) = 1 THEN parts[1]
    ELSE parts[1] \o sep \o JoinWith(Tail(parts), sep)

RECURSIVE SelectNonEmpty(_)
SelectNonEmpty(parts) ==
    IF parts = <<>> THEN <<>>
    ELSE IF Head(parts) = <<>> THEN SelectNonEmpty(Tail(parts))
    ELSE <<Head(parts)>> \o SelectNonEmpty(Tail(parts))

\* A recognized segment, and a recognition result holding the segments.
Seg(s, e, t) == [start |-> s, end |-> e, text |-> t]

Recognition(segs) ==
    [text |-> Flatten([k \in 1..Len(segs) |-> segs[k].text]),
     segments |-> segs, language |-> "en"]

-----------------------------------------------------------------------------
(* Speaker Assigner: the heuristic (no diarization).                       *)

\* The pause thresholds of _assign_generic_speakers, in milliseconds.
PauseMs == 1500
SentencePauseMs == 800

\* The full-width 。！？ are the tokens "U+3002", "U+FF01", "U+FF1F".
TerminalPunct == {".", "!", "?", "U+3002", "U+FF01", "U+FF1F"}

\* any(prev_text.endswith(punct) for punct in [...]) on the stripped text
EndsWithPunct(text) ==
    LET prev_text == Strip(text)
    IN  prev_text # <<>> /\ prev_text[Len(prev_text)] \in TerminalPunct

\* Variant for comparison: the thresholds compared with >= instead of >.
IsNewParagraphGE(segments, i, pause_duration) ==
    \/ (pause_duration >= PauseMs /\ i > 1)
    \/ (i > 1 /\ pause_duration >= SentencePauseMs
              /\ EndsWithPunct(segments[i - 1].text))

\* Variant for comparison: a sentence end breaks whatever the pause.
IsNewParagraphOnPunct(segments, i, pause_duration) ==
    \/ (pause_duration > PauseMs /\ i > 1)
    \/ (i > 1 /\ EndsWithPunct(segments[i - 1].text))

\* is_new_paragraph for the segment at index i (1-based), given pause_duration
IsNewParagraph(segments, i, pause_duration) ==
    \/ (pause_duration > PauseMs /\ i > 1)
    \/ (i > 1 /\ pause_duration > SentencePauseMs
              /\ EndsWithPunct(segments[i - 1].text))

WithSpeaker(segment, speaker) ==
    [start |-> segment.start, end |-> segment.end,
     text |-> segment.text, speaker |-> speaker]

\* Variant for comparison: the group is represented by its first member.
MergeSegmentGroupFirstOnly(segments, speaker) ==
    [start |-> segments[1].start, end |-> segments[1].end,
     text |-> segments[1].text, speaker |-> speaker]

\* _merge_segment_group, called with a non-empty group
MergeSegmentGroup(segments, speaker) ==
    IF Len(segments) = 1 THEN segments[1]
    ELSE [start |-> segments[1].start,
          end |-> segments[Len(segments)].end,
          text |-> JoinWith(SelectNonEmpty(
                       [k \in 1..Len(segments) |-> Strip(segments[k].text)]),
                       <<" ">>),
          speaker |-> speaker]

\* The for-loop of _assign_generic_speakers from index i on, and the flush
\* of the last group after it.
RECURSIVE GenericLoop(_, _, _, _, _)
GenericLoop(segments, i, last_end, segment_group, enhanced_segments) ==
    IF i > Len(segments)
    THEN IF segment_group # <<>>
         THEN Append(enhanced_segments,
                     MergeSegmentGroup(segment_group, "Speaker"))
         ELSE enhanced_segments
    ELSE LET segment == segments[i]
             pause_duration == IF i > 1 THEN segment.start - last_end ELSE 0
             flush == IsNewParagraph(segments, i, pause_duration)
                      /\ segment_group # <<>>
         IN  GenericLoop(segments, i + 1, segment.end,
                 Append(IF flush THEN <<>> ELSE segment_group,
                        WithSpeaker(segment, "Speaker")),
                 IF flush
                 THEN Append(enhanced_segments,
                             MergeSegmentGroup(segment_group, "Speaker"))
                 ELSE enhanced_segments)

\* Variant for comparison: the group left when the loop ends is not added.
AssignGenericSpeakersNoLastGroup(segments) ==
    LET r == GenericLoop(segments, 1, 0, <<>>, <<>>)
    IN  SubSeq(r, 1, Len(r) - 1)

\* _assign_generic_speakers
AssignGenericSpeakers(segments) == GenericLoop(segments, 1, 0, <<>>, <<>>)

-----------------------------------------------------------------------------
(* Speaker Assigner: diarization-driven.                                   *)

\* Python's < on two strings (sequences of code points).
RECURSIVE LexLess(_, _)
LexLess(a, b) ==
    IF b = <<>> THEN FALSE
    ELSE IF a = <<>> THEN TRUE
    ELSE IF Head(a) # Head(b) THEN Head(a) < Head(b)
    ELSE LexLess(Tail(a), Tail(b))

\* sorted(S) for a set of strings
RECURSIVE SortedIds(_)
SortedIds(S) ==
    IF S = {} THEN <<>>
    ELSE LET m == CHOOSE x \in S : \A y \in S \ {x} : LexLess(x, y)
         IN  <<m>> \o SortedIds(S \ {m})

\* The distinct ids in the order in which the timeline first names them.
RECURSIVE FirstSeenIds(_, _)
FirstSeenIds(timeline, seen) ==
    IF timeline = <<>> THEN seen
    ELSE FirstSeenIds(Tail(timeline),
             IF \E k \in 1..Len(seen) : seen[k] = Head(timeline).speaker
             THEN seen ELSE Append(seen, Head(timeline).speaker))

\* chr(ord('A') + i), i = 0, 1, ...
Letters == <<"A", "B", "C", "D", "E", "F", "G", "H", "I", "J", "K", "L", "M",
             "N", "O", "P", "Q", "R", "S", "T", "U", "V", "W", "X", "Y", "Z">>

SpeakerIdsOf(speakers_timeline) ==
    {speakers_timeline[k].speaker : k \in 1..Len(speakers_timeline)}

\* Variant for comparison: the ids in first-encountered order, not sorted.
UniqueSpeakersFirstSeen(speakers_timeline) == FirstSeenIds(speakers_timeline, <<>>)

\* unique_speakers = sorted(set(s['speaker'] for s in speakers_timeline))
UniqueSpeakers(speakers_timeline) == SortedIds(SpeakerIdsOf(speakers_timeline))

\* _get_speaker_mapping: dict(zip(unique_speakers, speaker_letters))
GetSpeakerMapping(speakers_timeline) ==
    LET unique_speakers == UniqueSpeakers(speakers_timeline)
    IN  [id \in SpeakerIdsOf(speakers_timeline) |->
            Letters[CHOOSE k \in 1..Len(unique_speakers) : unique_speakers[k] = id]]

\* Variant for comparison: the turn's interval open at its end.
TurnContainsHalfOpen(speaker_info, mid2) ==
    2 * speaker_info.start <= mid2 /\ mid2 < 2 * speaker_info.end

\* speaker_info['start'] <= segment_mid <= speaker_info['end'], with
\* mid2 = segment_start + segment_end, twice the midpoint
TurnContains(speaker_info, mid2) ==
    2 * speaker_info.start <= mid2 /\ mid2 <= 2 * speaker_info.end

\* The inner for-loop with its break: the index of the first turn from k on
\* that contains the midpoint, 0 when the loop ends without a match
\* (assigned_speaker stays 'Unknown').
RECURSIVE FindTurn(_, _, _)
FindTurn(speakers_timeline, mid2, k) ==
    IF k > Len(speakers_timeline) THEN 0
    ELSE IF TurnContains(speakers_timeline[k], mid2) THEN k
    ELSE FindTurn(speakers_timeline, mid2, k + 1)

AssignedSpeaker(speakers_timeline, segment) ==
    LET k == FindTurn(speakers_timeline, segment.start + segment.end, 1)
    IN  IF k = 0 THEN "Unknown"
        ELSE GetSpeakerMapping(speakers_timeline)[speakers_timeline[k].speaker]

AssignDiarized(segments, speakers_timeline) ==
    [j \in 1..Len(segments) |->
        WithSpeaker(segments[j], AssignedSpeaker(speakers_timeline, segments[j]))]

\* Variant for comparison: no fall back to the heuristic when there is no diarization.
AssignSpeakersAlwaysDiarized(segments, diar) ==
    AssignDiarized(segments, diar.speakers)

\* assign_speakers_to_segments.  A diarization result is
\* [available |-> BOOLEAN, speakers |-> the turns]; None is not available.

AssignSpeakersToSegments(segments, diar) ==
    IF ~diar.available
    THEN AssignGenericSpeakers(segments)
    ELSE AssignDiarized(segments, diar.speakers)

NoDiarization == [available |-> FALSE, speakers |-> <<>>]

-----------------------------------------------------------------------------
(* Paths.  A path is [dir, stem, ext]: dir a sequence of directory names,  *)
(* a name and a stem sequences of string tokens.                           *)

Path(dir, stem, ext) == [dir |-> dir, stem |-> stem, ext |-> ext]

InputPath == Path(<<<<"downloads">>>>, <<"ep">>, "mp3")

\* f"{segment_num:03d}"
NNN == <<"001", "002", "003", "004", "005", "006", "007", "008", "009">>

\* audio_path.parent / f"{audio_path.stem}_segments"
SegmentsDir(audio_path) == Append(audio_path.dir, audio_path.stem \o <<"_segments">>)

\* segments_dir / f"{audio_path.stem}_part{segment_num:03d}{audio_path.suffix}"
SegmentPath(audio_path, segment_num) ==
    Path(SegmentsDir(audio_path),
         audio_path.stem \o <<"_part", NNN[segment_num]>>, audio_path.ext)

\* audio_path.parent / f"{audio_path.stem}_processed.wav"
ProcessedPath(audio_path) ==
    Path(audio_path.dir, audio_path.stem \o <<"_processed">>, "wav")

\* dir / f"{path.stem}{suffix}.{format}"
TranscriptPath(dir, path, suffix, format) == Path(dir, path.stem \o suffix, format)

\* output_dir / f"{original_filename}_merged.{format}"
MergedPath(output_dir, original_filename, format) ==
    Path(output_dir, original_filename \o <<"_merged">>, format)

-----------------------------------------------------------------------------
(* Audio Segmenter.                                                        *)

BytesPerMB == 1048576

\* Variant for comparison: a file of exactly the threshold is split.
FitsSizeStrict(size_bytes, max_size_mb) == size_bytes < max_size_mb * BytesPerMB

\* file_size_mb <= max_size_mb, file_size_mb = st_size / (1024 * 1024)
FitsSize(size_bytes, max_size_mb) == size_bytes <= max_size_mb * BytesPerMB

\* segment_ms = segment_minutes * 60 * 1000
SegmentMsOf(segment_minutes) == segment_minutes * 60 * 1000

\* range(0, len(audio), segment_ms) for segment_ms > 0, from i on
RECURSIVE RangeFrom(_, _, _)
RangeFrom(i, stop, step) ==
    IF i >= stop THEN <<>> ELSE <<i>> \o RangeFrom(i + step, stop, step)

\* Variant for comparison: the slices overlap by one millisecond.
SliceOverlapping(len_audio, i, segment_ms) ==
    [from |-> IF i = 0 THEN 0 ELSE i - 1,
     to |-> IF i + segment_ms < len_audio THEN i + segment_ms ELSE len_audio]

\* audio[i:i + segment_ms]: the slice of the decoded audio, as the interval
\* [from, to) of the source's timeline that it holds
Slice(len_audio, i, segment_ms) ==
    [from |-> i,
     to |-> IF i + segment_ms < len_audio THEN i + segment_ms ELSE len_audio]

\* The chunks the for-loop of split_large_audio exports, in order: each
\* [path, from, to], segment_num = (i // segment_ms) + 1.
ChunksOf(audio_path, len_audio, segment_ms) ==
    LET starts == RangeFrom(0, len_audio, segment_ms)
    IN  [n \in 1..Len(starts) |->
            LET sl == Slice(len_audio, starts[n], segment_ms)
            IN  [path |-> SegmentPath(audio_path, (starts[n] \div segment_ms) + 1),
                 from |-> sl.from, to |-> sl.to]]

-----------------------------------------------------------------------------
(* Output Formatter: the subtitle and structured styles.                   *)
(* A file is a sequence of lines; a line is one of                         *)
(*   [k |-> "num", n]       a subtitle index                               *)
(*   [k |-> "ts", a, b]     "a --> b", a and b formatted timestamps        *)
(*   [k |-> "text", s]      any other non-empty line, s its characters     *)
(*   [k |-> "header"]       "WEBVTT"                                       *)
(*   [k |-> "blank"]                                                       *)
(* and a structured file holds the result record itself.                   *)

\* _format_timestamp: hours, minutes and the seconds to three decimals,
\* with "," (srt) or "." between the seconds and the milliseconds
FormatTimestamp(ms, srt) ==
    LET hours == ms \div 3600000
        minutes == (ms % 3600000) \div 60000
        secs == ms % 60000
    IN  [hh |-> hours, mm |-> minutes, ss |-> secs \div 1000,
         mmm |-> secs % 1000, sep |-> IF srt THEN "," ELSE "."]

\* _parse_timestamp: hours * 3600 + minutes * 60 + seconds
ParseTimestamp(ts) == ts.hh * 3600000 + ts.mm * 60000 + ts.ss * 1000 + ts.mmm

BlankLine == [k |-> "blank"]
HeaderLine == [k |-> "header"]
NumLine(n) == [k |-> "num", n |-> n]
TsLine(a, b) == [k |-> "ts", a |-> a, b |-> b]
TextLine(s) == [k |-> "text", s |-> s]

\* f"{speaker}: {text}" with text = segment["text"].strip()
PayloadLine(segment) == TextLine(<<segment.speaker, ":", " ">> \o Strip(segment.text))

\* save_transcript, format "srt"
SaveSrt(result) ==
    Flatten([i \in 1..Len(result.segments) |->
        <<NumLine(i),
          TsLine(FormatTimestamp(result.segments[i].start, TRUE),
                 FormatTimestamp(result.segments[i].end, TRUE)),
          PayloadLine(result.segments[i]),
          BlankLine>>])

\* save_transcript, format "vtt"
SaveVtt(result) ==
    <<HeaderLine, BlankLine>> \o
    Flatten([i \in 1..Len(result.segments) |->
        <<TsLine(FormatTimestamp(result.segments[i].start, FALSE),
                 FormatTimestamp(result.segments[i].end, FALSE)),
          PayloadLine(result.segments[i]),
          BlankLine>>])

\* [A-Z], and the lower-case letters re.IGNORECASE pairs them with
UpperLetters ==
    <<"A", "B", "C", "D", "E", "F", "G", "H", "I", "J", "K", "L", "M",
      "N", "O", "P", "Q", "R", "S", "T", "U", "V", "W", "X", "Y", "Z">>
LowerLetters ==
    <<"a", "b", "c", "d", "e", "f", "g", "h", "i", "j", "k", "l", "m",
      "n", "o", "p", "q", "r", "s", "t", "u", "v", "w", "x", "y", "z">>

IsUpper(ch) == \E k \in 1..Len(UpperLetters) : UpperLetters[k] = ch

ToLower(ch) ==
    IF IsUpper(ch)
    THEN LowerLetters[CHOOSE k \in 1..Len(UpperLetters) : UpperLetters[k] = ch]
    ELSE ch

\* The alternatives of `abbreviations`, in the order of the pattern.
Abbreviations ==
    <<<<"m", "r">>, <<"m", "r", "s">>, <<"m", "s">>, <<"d", "r">>,
      <<"p", "r", "o", "f">>, <<"s", "r">>, <<"j", "r">>, <<"v", "s">>,
      <<"e", "t", "c">>, <<"i", ".", "e">>, <<"e", ".", "g">>,
      <<"a", ".", "m">>, <<"p", ".", "m">>, <<"u", ".", "s">>,
      <<"u", ".", "k">>>>

\* The alternatives that match at index i of t and are followed by "."
AbbrevAt(t, i) ==
    {n \in 1..Len(Abbreviations) :
        LET a == Abbreviations[n]
        IN  /\ i + Len(a) <= Len(t)
            /\ \A j \in 1..Len(a) : ToLower(t[i + j - 1]) = a[j]
            /\ t[i + Len(a)] = "."}

\* re.sub(f'({abbreviations})\.', r'\1<ABBREV>', text, flags=re.IGNORECASE),
\* scanning from index i; the placeholder is the one token "<ABBREV>".
RECURSIVE ProtectFrom(_, _)
ProtectFrom(t, i) ==
    IF i > Len(t) THEN <<>>
    ELSE IF AbbrevAt(t, i) # {}
    THEN LET n == CHOOSE m \in AbbrevAt(t, i) : \A o \in AbbrevAt(t, i) : m <= o
             a == Abbreviations[n]
         IN  SubSeq(t, i, i + Len(a) - 1) \o <<"<ABBREV>">>
                \o ProtectFrom(t, i + Len(a) + 1)
    ELSE <<t[i]>> \o ProtectFrom(t, i + 1)

\* The last index of the run of characters of S that starts at index i
\* (i - 1 when t[i] is not in S).
RECURSIVE RunEnd(_, _, _)
RunEnd(t, i, S) ==
    IF i <= Len(t) /\ t[i] \in S THEN RunEnd(t, i + 1, S) ELSE i - 1

SentencePunct == {".", "!", "?"}

\* re.split(r'([.!?]+)\s+(?=[A-Z]|$)', protected_text) from index i on,
\* cur being the part read so far: the parts, separators at even places.
RECURSIVE SplitParts(_, _, _)
SplitParts(t, i, cur) ==
    IF i > Len(t) THEN <<cur>>
    ELSE IF t[i] \in SentencePunct
    THEN LET e == RunEnd(t, i, SentencePunct)
             w == RunEnd(t, e + 1, Whitespace)
         IN  IF w > e /\ (w = Len(t) \/ IsUpper(t[w + 1]))
             THEN <<cur, SubSeq(t, i, e)>> \o SplitParts(t, w + 1, <<>>)
             ELSE SplitParts(t, e + 1, cur \o SubSeq(t, i, e))
    ELSE SplitParts(t, i + 1, Append(cur, t[i]))

\* sentence.replace('<ABBREV>', '.')
RestoreAbbrev(t) == [k \in 1..Len(t) |-> IF t[k] = "<ABBREV>" THEN "." ELSE t[k]]

\* _split_into_sentences
SplitIntoSentences(text) ==
    IF Strip(text) = <<>> THEN <<>>
    ELSE LET parts == SplitParts(ProtectFrom(text, 1), 1, <<>>)
             pairs == [k \in 1..(Len(parts) - 1) \div 2 |->
                          Strip(RestoreAbbrev(parts[2 * k - 1] \o parts[2 * k]))]
             last_part == Strip(RestoreAbbrev(parts[Len(parts)]))
             sentences == SelectNonEmpty(pairs \o <<last_part>>)
         IN  IF sentences # <<>> THEN sentences ELSE <<Strip(text)>>

\* file.write(f"{speaker}: {sentence}\n\n") for each sentence
SentenceLines(speaker, sentences) ==
    Flatten([k \in 1..Len(sentences) |->
        IF Strip(sentences[k]) # <<>>
        THEN <<TextLine(<<speaker, ":", " ">> \o Strip(sentences[k])), BlankLine>>
        ELSE <<>>])

\* The loop of _write_speaker_formatted_text over the segments: the lines
\* it writes.
WrittenForSegments(segments) ==
    Flatten([k \in 1..Len(segments) |->
        IF Strip(segments[k].text) # <<>>
        THEN SentenceLines(segments[k].speaker,
                           SplitIntoSentences(Strip(segments[k].text)))
        ELSE <<>>])

\* Variant: the final newline written is not removed.
WriteSpeakerFormattedTextNoTruncate(result) ==
    IF result.segments = <<>>
    THEN [lines |-> IF Strip(result.text) # <<>>
                    THEN SentenceLines("Unknown", SplitIntoSentences(Strip(result.text)))
                    ELSE <<>>,
          raised |-> FALSE]
    ELSE [lines |-> WrittenForSegments(result.segments), raised |-> FALSE]

\* _write_speaker_formatted_text: the lines of the file, and whether
\* file.seek(file.tell() - 1) raised (a negative position: nothing written).
WriteSpeakerFormattedText(result) ==
    IF result.segments = <<>>
    THEN [lines |-> IF Strip(result.text) # <<>>
                    THEN SentenceLines("Unknown", SplitIntoSentences(Strip(result.text)))
                    ELSE <<>>,
          raised |-> FALSE]
    ELSE LET written == WrittenForSegments(result.segments)
         IN  IF written = <<>> THEN [lines |-> <<>>, raised |-> TRUE]
             ELSE [lines |-> SubSeq(written, 1, Len(written) - 1), raised |-> FALSE]

\* save_transcript raises
SaveRaises(result, format) ==
    format = "txt" /\ WriteSpeakerFormattedText(result).raised

\* save_transcript: the file it writes (or leaves behind when it raises)
SaveTranscript(result, format) ==
    IF format = "txt"
    THEN [lines |-> WriteSpeakerFormattedText(result).lines, json |-> <<>>]
    ELSE IF format = "srt" THEN [lines |-> SaveSrt(result), json |-> <<>>]
    ELSE IF format = "vtt" THEN [lines |-> SaveVtt(result), json |-> <<>>]
    ELSE [lines |-> <<>>, json |-> <<result>>]

-----------------------------------------------------------------------------
(* Merger.                                                                 *)

\* total_offset += 5 * 60 after each transcript, in milliseconds
MergeStepMs == 300000

\* line.strip() of a line read back: a text line loses its outer whitespace
StripLine(line) ==
    IF line.k = "text"
    THEN IF Strip(line.s) = <<>> THEN BlankLine ELSE TextLine(Strip(line.s))
    ELSE line

\* _adjust_timestamps: both timestamps parsed, shifted and formatted back,
\* each with the separator it had
AdjustTimestamps(line, offset) ==
    TsLine(FormatTimestamp(ParseTimestamp(line.a) + offset, line.a.sep = ","),
           FormatTimestamp(ParseTimestamp(line.b) + offset, line.b.sep = ","))

\* Variant for comparison: the index lines are copied with their numbers.
RECURSIVE MergeLinesKeepNumbers(_, _, _, _, _, _)
MergeLinesKeepNumbers(lines, i, format, total_offset, segment_counter, out) ==
    IF i > Len(lines) THEN [out |-> out, counter |-> segment_counter]
    ELSE LET line == StripLine(lines[i])
         IN  MergeLinesKeepNumbers(lines, i + 1, format, total_offset, segment_counter,
                 IF line.k = "blank" THEN out
                 ELSE IF line.k = "ts"
                 THEN Append(out, AdjustTimestamps(line, total_offset))
                 ELSE Append(out, line))

\* The while-loop of _merge_subtitle_files over one file's lines from index
\* i (1-based) on: [out, counter], the lines written and segment_counter.
RECURSIVE MergeLines(_, _, _, _, _, _)
MergeLines(lines, i, format, total_offset, segment_counter, out) ==
    IF i > Len(lines) THEN [out |-> out, counter |-> segment_counter]
    ELSE LET line == StripLine(lines[i])
         IN  IF line.k = "blank"
             THEN MergeLines(lines, i + 1, format, total_offset, segment_counter, out)
             ELSE IF format = "srt" /\ line.k = "num"
             THEN MergeLines(lines, i + 1, format, total_offset, segment_counter + 1,
                             Append(out, NumLine(segment_counter)))
             ELSE IF line.k = "ts"
             THEN MergeLines(lines, i + 1, format, total_offset, segment_counter,
                             Append(out, AdjustTimestamps(line, total_offset)))
             ELSE MergeLines(lines, i + 1, format, total_offset, segment_counter,
                             Append(out, line))

\* The for-loop of _merge_subtitle_files from transcript n on.  files maps
\* the paths that exist to their contents.
RECURSIVE MergeSubtitleFrom(_, _, _, _, _, _, _)
MergeSubtitleFrom(transcript_paths, n, files, format, total_offset, segment_counter, out) ==
    IF n > Len(transcript_paths) THEN out
    ELSE IF transcript_paths[n] \notin DOMAIN files
    THEN MergeSubtitleFrom(transcript_paths, n + 1, files, format,
                           total_offset, segment_counter, out)
    ELSE LET lines == files[transcript_paths[n]].lines
             first == IF format = "vtt" /\ lines # <<>> /\ lines[1].k = "header"
                      THEN 3 ELSE 1
             r == MergeLines(lines, first, format, total_offset, segment_counter, out)
         IN  MergeSubtitleFrom(transcript_paths, n + 1, files, format,
                               total_offset + MergeStepMs, r.counter,
                               Append(r.out, BlankLine))

\* _merge_subtitle_files: the lines of the merged file
MergeSubtitleFiles(transcript_paths, files, format) ==
    MergeSubtitleFrom(transcript_paths, 1, files, format, 0, 1,
                      IF format = "vtt" THEN <<HeaderLine, BlankLine>> ELSE <<>>)

\* adjusted_segment["start"] += total_offset; adjusted_segment["end"] += total_offset
ShiftSegments(segs, total_offset) ==
    [j \in 1..Len(segs) |->
        [segs[j] EXCEPT !.start = @ + total_offset, !.end = @ + total_offset]]

\* The for-loop of _merge_json_files from transcript n on; merged is
\* [text, segments, language], language "None" while it is None.
RECURSIVE MergeJsonFrom(_, _, _, _, _)
MergeJsonFrom(transcript_paths, n, files, total_offset, merged) ==
    IF n > Len(transcript_paths) THEN merged
    ELSE IF transcript_paths[n] \notin DOMAIN files
    THEN MergeJsonFrom(transcript_paths, n + 1, files, total_offset, merged)
    ELSE LET segment_result == files[transcript_paths[n]].json[1]
         IN  MergeJsonFrom(transcript_paths, n + 1, files,
                 total_offset + MergeStepMs,
                 [text |-> (IF merged.text # <<>> THEN merged.text \o <<" ">>
                            ELSE merged.text) \o segment_result.text,
                  segments |-> merged.segments
                                 \o ShiftSegments(segment_result.segments, total_offset),
                  language |-> IF merged.language = "None"
                               THEN segment_result.language
                               ELSE merged.language])

\* _merge_json_files: the record written to the merged file
MergeJsonFiles(transcript_paths, files) ==
    MergeJsonFrom(transcript_paths, 1, files, 0,
                  [text |-> <<>>, segments |-> <<>>, language |-> "None"])

\* A line that is empty or white space only.
IsBlankLine(line) == line.k = "blank" \/ (line.k = "text" /\ Strip(line.s) = <<>>)

\* content = f.read().strip(), as lines: the outer blank lines are gone
RECURSIVE StripContent(_)
StripContent(lines) ==
    IF lines = <<>> THEN <<>>
    ELSE IF IsBlankLine(lines[1]) THEN StripContent(Tail(lines))
    ELSE IF IsBlankLine(lines[Len(lines)])
    THEN StripContent(SubSeq(lines, 1, Len(lines) - 1))
    ELSE lines

\* merged_file.write("\n\n"): it ends the line being written and adds an
\* empty one, or adds two empty lines to an empty file.
WriteSeparator(out) == IF out = <<>> THEN <<BlankLine, BlankLine>> ELSE Append(out, BlankLine)

\* Variant for comparison: each content replaces what was written before.
MergeTextStepOverwrites(out, n, content) ==
    IF content # <<>> THEN content ELSE out

\* One round of merge_transcripts' loop for "txt" on the n-th transcript
\* (i = n - 1), whose stripped content is `content`.
MergeTextStep(out, n, content) ==
    IF content # <<>>
    THEN (IF n > 1 THEN WriteSeparator(out) ELSE out) \o content
    ELSE out

\* The for-loop of merge_transcripts for "txt" from transcript n on.
RECURSIVE MergeTextFrom(_, _, _, _)
MergeTextFrom(transcript_paths, n, files, out) ==
    IF n > Len(transcript_paths) THEN out
    ELSE IF transcript_paths[n] \notin DOMAIN files
    THEN MergeTextFrom(transcript_paths, n + 1, files, out)
    ELSE MergeTextFrom(transcript_paths, n + 1, files,
             MergeTextStep(out, n, StripContent(files[transcript_paths[n]].lines)))

\* json.load(f) raises: the file does not hold a JSON document.
JsonLoadRaises(file) == file.json = <<>>

\* merge_transcripts raises (before _merge_json_files opens the output)
MergeRaises(transcript_paths, files, format) ==
    /\ format = "json"
    /\ \E n \in 1..Len(transcript_paths) :
          /\ transcript_paths[n] \in DOMAIN files
          /\ JsonLoadRaises(files[transcript_paths[n]])

\* merge_transcripts: the merged file
MergeTranscripts(transcript_paths, files, format) ==
    IF format = "txt"
    THEN [lines |-> MergeTextFrom(transcript_paths, 1, files, <<>>), json |-> <<>>]
    ELSE IF format \in {"srt", "vtt"}
    THEN [lines |-> MergeSubtitleFiles(transcript_paths, files, format), json |-> <<>>]
    ELSE [lines |-> <<>>, json |-> <<MergeJsonFiles(transcript_paths, files)>>]

-----------------------------------------------------------------------------
(* transcribe_file: one call on one AudioTranscriber, step by step.        *)

\* The defaults of transcribe_file's max_size_mb.
DefaultMaxSizeMB == 10

Formats == {"txt", "srt", "vtt", "json"}
SegmentMinutes == {0, 1, 5}
\* What is left of the decoded audio after its full chunks, in milliseconds.
Remainders == {0, 1}

\* What the recognition engine may return for a chunk.
RecogResults ==
    {Recognition(<<>>),
     Recognition(<<Seg(500, 2000, <<" ", "a", ".">>),
                   Seg(3600, 59999, <<"b", "?", " ", "B">>)>>)}

\* What the diarization engine may return for a chunk.
DiarResults ==
    {<<[start |-> 0, end |-> 1500, speaker |-> <<50>>],
       [start |-> 1500, end |-> 60000, speaker |-> <<49>>]>>}

\* __init__ and _load_diarization_pipeline: the fields after construction
\* with enable_diarization = requested, the pipeline's load ending as `load`.
Constructed(requested, pyannote, load) ==
    IF requested /\ pyannote /\ load = "ok"
    THEN [enable |-> TRUE, pipeline |-> TRUE]
    ELSE [enable |-> FALSE, pipeline |-> FALSE]

NoLocals ==
    [suffix |-> <<>>, original_diarization |-> FALSE, segments |-> <<>>,
     chunks |-> <<>>, i |-> 0, transcribe_path |-> InputPath,
     transcript_paths |-> <<>>, cleanup_paths |-> <<>>]

Init ==
    /\ NoWeb
    /\ asg_pc = "idle"
    /\ transcription = Recognition(<<>>)
    /\ diarization = NoDiarization
    /\ enhanced = Recognition(<<>>)
    /\ pc = "start"
    /\ env \in [pydub : BOOLEAN, pyannote : BOOLEAN]
    /\ \E requested \in BOOLEAN, load \in {"ok", "no_token", "failed"} :
          LET c == Constructed(requested, env.pyannote, load)
          IN  enable_diarization = c.enable /\ diarization_pipeline = c.pipeline
    /\ \E format \in Formats, segment_minutes \in SegmentMinutes,
          preprocess \in BOOLEAN, override \in {"None", "True", "False"},
          over \in 0..1, q \in 0..MaxFullChunks, r \in Remainders :
          job = [format |-> format, segment_minutes |-> segment_minutes,
                 max_size_mb |-> DefaultMaxSizeMB, preprocess |-> preprocess,
                 enable_diarization |-> override,
                 size_bytes |-> DefaultMaxSizeMB * BytesPerMB + over,
                 len_audio |-> q * SegmentMsOf(segment_minutes) + r]
    /\ loc = NoLocals
    /\ audio_files = {InputPath}
    /\ dirs = {}
    /\ text_files = <<>>
    /\ returned = <<>>
    /\ log = <<>>

Event(op, n) == [op |-> op, n |-> n]

\* transcribe_file up to the try: suffix, and the override of the setting
Begin ==
    /\ pc = "start"
    /\ loc' = [loc EXCEPT
          !.suffix = IF (IF job.enable_diarization # "None"
                         THEN job.enable_diarization = "True"
                         ELSE enable_diarization)
                     THEN <<"_speakers">> ELSE <<>>,
          !.original_diarization = enable_diarization]
    /\ enable_diarization' =
          IF job.enable_diarization # "None"
          THEN job.enable_diarization = "True" /\ env.pyannote
          ELSE enable_diarization
    /\ pc' = "split"
    /\ UNCHANGED <<asgVars, env, webVars, diarization_pipeline, job, diskVars, returned, log>>

\* Variant for comparison: several segments are merged at once.
AfterSplitMergesFirst(segments) ==
    IF Len(segments) = 1 THEN "preprocess" ELSE "merge"

\* What follows split_large_audio's return: len(segments) == 1 or the loop.
AfterSplit(segments) ==
    IF Len(segments) = 1 THEN "preprocess"
    ELSE IF Len(segments) = 0 THEN "merge" ELSE "preprocess"

\* split_large_audio returning [audio_path]
ReturnOriginal ==
    /\ loc' = [loc EXCEPT !.segments = <<InputPath>>, !.i = 1]
    /\ pc' = AfterSplit(<<InputPath>>)

\* split_large_audio: no split (pydub missing, or the file fits)
SplitNotNeeded ==
    /\ pc = "split"
    /\ ~env.pydub \/ FitsSize(job.size_bytes, job.max_size_mb)
    /\ ReturnOriginal
    /\ log' = Append(log, Event("no_split", 1))
    /\ UNCHANGED <<asgVars, env, webVars, selfVars, job, diskVars, returned>>

\* split_large_audio: AudioSegment.from_file raises
SplitDecodeFails ==
    /\ pc = "split"
    /\ env.pydub /\ ~FitsSize(job.size_bytes, job.max_size_mb)
    /\ ReturnOriginal
    /\ log' = Append(log, Event("split_failed", 0))
    /\ UNCHANGED <<asgVars, env, webVars, selfVars, job, diskVars, returned>>

\* Variant for comparison: a failed export returns the segments written so far.
SplitReturnPartial(audio_path, chunks, failing) ==
    [n \in 1..(IF failing = 0 THEN Len(chunks) ELSE failing - 1) |-> chunks[n].path]

\* What split_large_audio returns once the audio is decoded: the segments,
\* or [audio_path] when the export of chunk `failing` raised (0: none did).
SplitReturn(audio_path, chunks, failing) ==
    IF failing = 0 THEN [n \in 1..Len(chunks) |-> chunks[n].path]
    ELSE <<audio_path>>

\* split_large_audio: the audio decodes; the directory is made; then the
\* division by segment_ms = 0 raises, or the export of chunk `failing`
\* raises (0: none does) after the chunks before it were written.
SplitDecoded ==
    /\ pc = "split"
    /\ env.pydub /\ ~FitsSize(job.size_bytes, job.max_size_mb)
    /\ dirs' = dirs \cup {SegmentsDir(InputPath)}
    /\ LET segment_ms == SegmentMsOf(job.segment_minutes)
       IN  IF segment_ms = 0
           THEN /\ ReturnOriginal
                /\ audio_files' = audio_files
                /\ log' = Append(log, Event("split_failed", 0))
           ELSE LET chunks == ChunksOf(InputPath, job.len_audio, segment_ms)
                IN  \E failing \in 0..Len(chunks) :
                       LET written == IF failing = 0 THEN chunks
                                      ELSE SubSeq(chunks, 1, failing - 1)
                           segments == SplitReturn(InputPath, chunks, failing)
                       IN  /\ loc' = [loc EXCEPT !.segments = segments,
                                                 !.chunks = written, !.i = 1]
                           /\ pc' = AfterSplit(segments)
                           /\ audio_files' = audio_files
                                 \cup {written[n].path : n \in 1..Len(written)}
                           /\ log' = Append(log,
                                 IF failing = 0 THEN Event("split", Len(chunks))
                                 ELSE Event("split_failed", failing))
    /\ UNCHANGED <<asgVars, env, webVars, selfVars, job, text_files, returned>>

\* The single-file workflow is taken: it works on input_path itself.
Single == Len(loc.segments) = 1

\* The audio the current step works on.
CurrentAudio == IF Single THEN InputPath ELSE loc.segments[loc.i]

\* preprocess_audio and what transcribe_file does with its result
Preprocess ==
    /\ pc = "preprocess"
    /\ IF job.preprocess /\ env.pydub
       THEN \E ok \in BOOLEAN :
               LET processed_path == IF ok THEN ProcessedPath(CurrentAudio)
                                     ELSE CurrentAudio
               IN  /\ audio_files' = audio_files \cup {processed_path}
                   /\ loc' = [loc EXCEPT
                          !.transcribe_path = processed_path,
                          !.cleanup_paths =
                              IF ~Single /\ processed_path # CurrentAudio
                              THEN Append(@, processed_path) ELSE @]
       ELSE /\ loc' = [loc EXCEPT !.transcribe_path = CurrentAudio]
            /\ audio_files' = audio_files
    /\ pc' = "diarize"
    /\ log' = Append(log, Event("preprocess", loc.i))
    /\ UNCHANGED <<asgVars, env, webVars, selfVars, job, dirs, text_files, returned>>

\* finally: self.enable_diarization = original_diarization
Restore == enable_diarization' = loc.original_diarization

\* transcribe_audio: the file is missing (FileNotFoundError)
Missing == loc.transcribe_path \notin audio_files

\* transcribe_audio, step 1: perform_diarization, if enabled.  None when
\* the setting is off, no pipeline is loaded or the engine raises.
PerformDiarization ==
    /\ pc = "diarize"
    /\ IF Missing
       THEN /\ pc' = "raised"
            /\ Restore
            /\ log' = Append(log, Event("raise", loc.i))
            /\ UNCHANGED diarization
       ELSE /\ pc' = "recognize"
            /\ UNCHANGED enable_diarization
            /\ IF enable_diarization /\ diarization_pipeline
               THEN \/ /\ diarization' = NoDiarization
                       /\ log' = Append(log, Event("diarize_failed", loc.i))
                    \/ /\ \E tl \in DiarResults :
                             diarization' = [available |-> TRUE, speakers |-> tl]
                       /\ log' = Append(log, Event("diarize", loc.i))
               ELSE /\ diarization' = NoDiarization
                    /\ log' = Append(log, Event("no_diarize", loc.i))
    /\ UNCHANGED <<asg_pc, transcription, enhanced, env, webVars, diarization_pipeline, job,
                   loc, diskVars, returned>>

\* transcribe_audio, step 2: self.model.transcribe returns
Recognize ==
    /\ pc = "recognize"
    /\ transcription' \in RecogResults
    /\ pc' = "assign"
    /\ log' = Append(log, Event("recognize", loc.i))
    /\ UNCHANGED <<asg_pc, diarization, enhanced, env, webVars, selfVars, job, loc, diskVars,
                   returned>>

\* Variant for comparison: a segment whose recognition fails is skipped.
RecognizeFailsSkipsChunk ==
    /\ pc = "recognize"
    /\ IF Len(loc.segments) = 1
       THEN pc' = "raised" /\ Restore /\ loc' = loc
       ELSE /\ pc' = IF loc.i < Len(loc.segments) THEN "preprocess" ELSE "merge"
            /\ loc' = [loc EXCEPT !.i = @ + 1]
            /\ UNCHANGED enable_diarization
    /\ log' = Append(log, Event("recognize_failed", loc.i))
    /\ UNCHANGED <<asgVars, env, webVars, diarization_pipeline, job, diskVars, returned>>

\* transcribe_audio, step 2: self.model.transcribe raises; transcribe_audio
\* re-raises and transcribe_file's finally runs
RecognizeFails ==
    /\ pc = "recognize"
    /\ pc' = "raised"
    /\ Restore
    /\ log' = Append(log, Event("recognize_failed", loc.i))
    /\ UNCHANGED <<asgVars, env, webVars, diarization_pipeline, job, loc, diskVars, returned>>

\* Variant: the processed file is removed without comparing it to the input.
CleanUpProcessedUnguarded(files, transcribe_path) ==
    IF job.preprocess THEN files \ {transcribe_path} ELSE files

\* Single path, after the save: the processed file is removed if one was
\* made (transcribe_path != input_path) and it exists.
CleanUpProcessed(files, transcribe_path) ==
    IF job.preprocess /\ transcribe_path # InputPath
    THEN files \ {transcribe_path} ELSE files

\* transcribe_audio, step 3, and save_transcript; then the single-file
\* workflow cleans up and returns, and the loop goes to the next segment.
\* When save_transcript raises, the file it opened is left and the
\* exception leaves transcribe_file through its finally.
AssignAndSave ==
    /\ pc = "assign"
    /\ LET result == [transcription EXCEPT
                         !.segments = AssignSpeakersToSegments(transcription.segments,
                                                               diarization)]
           output == IF Single
                     THEN TranscriptPath(InputPath.dir, InputPath, loc.suffix, job.format)
                     ELSE TranscriptPath(loc.segments[loc.i].dir, loc.segments[loc.i],
                                         loc.suffix, job.format)
       IN  /\ enhanced' = result
           /\ text_files' = (output :> SaveTranscript(result, job.format)) @@ text_files
           /\ IF SaveRaises(result, job.format)
              THEN /\ pc' = "raised"
                   /\ Restore
                   /\ loc' = loc
                   /\ log' = Append(log, Event("save_failed", loc.i))
                   /\ UNCHANGED <<audio_files, returned>>
              ELSE IF Single
              THEN /\ audio_files' = CleanUpProcessed(audio_files, loc.transcribe_path)
                   /\ returned' = <<output>>
                   /\ Restore
                   /\ pc' = "done"
                   /\ loc' = loc
                   /\ log' = log \o <<Event("save", loc.i), Event("return", 0)>>
              ELSE /\ loc' = [loc EXCEPT !.transcript_paths = Append(@, output),
                                         !.i = @ + 1]
                   /\ pc' = IF loc.i < Len(loc.segments) THEN "preprocess" ELSE "merge"
                   /\ log' = Append(log, Event("save", loc.i))
                   /\ UNCHANGED <<audio_files, returned, enable_diarization>>
    /\ UNCHANGED <<asg_pc, transcription, diarization, env, webVars, diarization_pipeline, job, dirs>>

\* merge_transcripts, the clean-up of the processed files, and the return:
\* segments[0].parent raises IndexError when there is no segment.
Merge ==
    /\ pc = "merge"
    /\ LET merged_path == MergedPath(InputPath.dir, InputPath.stem, job.format)
       IN  /\ text_files' =
                 (merged_path :> MergeTranscripts(loc.transcript_paths, text_files,
                                                  job.format)) @@ text_files
           /\ audio_files' = audio_files \
                 {loc.cleanup_paths[k] : k \in 1..Len(loc.cleanup_paths)}
           /\ IF loc.segments = <<>>
              THEN /\ pc' = "raised"
                   /\ returned' = returned
                   /\ log' = log \o <<Event("merge", Len(loc.transcript_paths)),
                                      Event("raise", 0)>>
              ELSE /\ pc' = "done"
                   /\ returned' = <<merged_path>>
                   /\ log' = log \o <<Event("merge", Len(loc.transcript_paths)),
                                      Event("return", 0)>>
    /\ Restore
    /\ UNCHANGED <<asgVars, env, webVars, diarization_pipeline, job, loc, dirs>>

Next ==
    \/ Begin
    \/ SplitNotNeeded
    \/ SplitDecodeFails
    \/ SplitDecoded
    \/ Preprocess
    \/ PerformDiarization
    \/ Recognize
    \/ RecognizeFails
    \/ AssignAndSave
    \/ Merge

Spec == Init /\ [][Next]_vars

-----------------------------------------------------------------------------
(* The Speaker Assigner on its own: every input of the bounded sets below, *)
(* and one call of assign_speakers_to_segments.                            *)

\* Engine speaker ids "1", "10" and "2" (code points): their order as
\* strings differs from their order as numbers.
SpeakerIds == {<<49>>, <<49, 48>>, <<50>>}

DiarTimes == {0, 1000, 2000}

Turns ==
    {[start |-> s, end |-> e, speaker |-> id] :
        s \in DiarTimes, e \in DiarTimes, id \in SpeakerIds}

\* itertracks yields the turns sorted by (start, end); a turn is not empty.
IsSortedTimeline(tl) ==
    /\ \A k \in 1..Len(tl) : tl[k].start < tl[k].end
    /\ \A k \in 1..Len(tl) - 1 :
          \/ tl[k].start < tl[k + 1].start
          \/ (tl[k].start = tl[k + 1].start /\ tl[k].end <= tl[k + 1].end)

Timelines == {tl \in SeqsUpTo(Turns, MaxTurns) : IsSortedTimeline(tl)}

\* Recognized segments follow one another: start <= end <= next start.
IsSegmentList(segs) ==
    /\ \A k \in 1..Len(segs) : segs[k].start <= segs[k].end
    /\ \A k \in 1..Len(segs) - 1 : segs[k].end <= segs[k + 1].start

DiarSegments ==
    {segs \in SeqsUpTo({Seg(s, e, <<"H", "i">>) : s \in DiarTimes, e \in DiarTimes},
                       MaxDiarSegs) : IsSegmentList(segs)}

GenericTexts ==
    {<<"a">>, <<"a", ".">>, <<" ", "a", "?", " ">>, <<"U+3002">>, <<" ">>}

Gaps == {0, SentencePauseMs, SentencePauseMs + 1, PauseMs, PauseMs + 1}

\* The segments with the given texts, each one second long, segment k + 1
\* starting gs[k] after the end of segment k.
RECURSIVE Spaced(_, _, _)
Spaced(texts, gs, from) ==
    IF texts = <<>> THEN <<>>
    ELSE <<Seg(from, from + 1000, Head(texts))>>
         \o (IF gs = <<>> THEN <<>>
             ELSE Spaced(Tail(texts), Tail(gs), from + 1000 + Head(gs)))

InitAssign ==
    /\ NoWeb
    /\ pc = "idle"
    /\ env = [pydub |-> TRUE, pyannote |-> TRUE]
    /\ enable_diarization = TRUE
    /\ diarization_pipeline = TRUE
    /\ job = [format |-> "json", segment_minutes |-> 5,
              max_size_mb |-> DefaultMaxSizeMB, preprocess |-> FALSE,
              enable_diarization |-> "None", size_bytes |-> 0, len_audio |-> 0]
    /\ loc = NoLocals
    /\ audio_files = {InputPath}
    /\ dirs = {}
    /\ text_files = <<>>
    /\ returned = <<>>
    /\ log = <<>>
    /\ asg_pc = "ready"
    /\ enhanced = Recognition(<<>>)
    /\ \/ /\ \E tl \in Timelines : diarization = [available |-> TRUE, speakers |-> tl]
          /\ \E segs \in DiarSegments : transcription = Recognition(segs)
       \/ /\ diarization = NoDiarization
          /\ \E n \in 0..MaxGenericSegs :
                \E texts \in [1..n -> GenericTexts] :
                   \E gs \in [1..(IF n = 0 THEN 0 ELSE n - 1) -> Gaps] :
                      transcription = Recognition(Spaced(texts, gs, 0))

\* result = transcription.copy(); result['segments'] = enhanced_segments
Assign ==
    /\ asg_pc = "ready"
    /\ enhanced' = [transcription EXCEPT
                       !.segments = AssignSpeakersToSegments(transcription.segments,
                                                             diarization)]
    /\ asg_pc' = "done"
    /\ UNCHANGED <<transcription, diarization, pc, env, webVars, selfVars, job, loc, diskVars,
                   returned, log>>

NextAssign == Assign

SpecAssign == InitAssign /\ [][NextAssign]_vars

-----------------------------------------------------------------------------
(* save_transcript alone: one call on one labeled result.                  *)

SaveTexts ==
    {<<" ">>, <<"a", ".">>, <<"a", ".", " ", "B", "!">>, <<"D", "r", ".", " ", "X">>}

SaveLabels == {"A", "Speaker"}

\* The labeled segments with the given texts and labels, one per second.
LabeledSegments(texts, labels) ==
    [k \in 1..Len(texts) |->
        [start |-> (k - 1) * 1000, end |-> k * 1000,
         text |-> texts[k], speaker |-> labels[k]]]

\* The variables that a call of one method alone leaves at rest.
Standalone ==
    /\ NoWeb
    /\ asg_pc = "idle"
    /\ transcription = Recognition(<<>>)
    /\ diarization = NoDiarization
    /\ env = [pydub |-> TRUE, pyannote |-> TRUE]
    /\ enable_diarization = FALSE
    /\ diarization_pipeline = FALSE
    /\ audio_files = {InputPath}
    /\ dirs = {}
    /\ returned = <<>>
    /\ log = <<>>

JobOf(format) ==
    [format |-> format, segment_minutes |-> 5,
     max_size_mb |-> DefaultMaxSizeMB, preprocess |-> FALSE,
     enable_diarization |-> "None", size_bytes |-> 0, len_audio |-> 0]

InitSave ==
    /\ Standalone
    /\ pc = "save"
    /\ \E format \in Formats : job = JobOf(format)
    /\ loc = NoLocals
    /\ text_files = <<>>
    /\ \E n \in 0..MaxSaveSegs :
          \E texts \in [1..n -> SaveTexts], labels \in [1..n -> SaveLabels],
             text \in {<<>>, <<"x", ".", " ", "Y">>} :
                /\ n > 0 => text = <<>>
                /\ enhanced = [text |-> IF n = 0 THEN text ELSE Flatten(texts),
                               segments |-> LabeledSegments(texts, labels),
                               language |-> "en"]

\* save_transcript(result, output_path, format)
Save ==
    /\ pc = "save"
    /\ LET output == TranscriptPath(InputPath.dir, InputPath, <<>>, job.format)
       IN  text_files' = (output :> SaveTranscript(enhanced, job.format)) @@ text_files
    /\ pc' = IF SaveRaises(enhanced, job.format) THEN "save_raised" ELSE "saved"
    /\ UNCHANGED <<asgVars, env, webVars, selfVars, job, loc, audio_files, dirs, returned, log>>

NextSave == Save

SpecSave == InitSave /\ [][NextSave]_vars

-----------------------------------------------------------------------------
(* merge_transcripts alone: one call on the transcripts of some chunks.    *)

\* Labeled results whose saved files are the chunks' transcripts.
MergeResults ==
    {[text |-> <<>>, segments |-> <<>>, language |-> "en"],
     [text |-> <<"a", ".">>,
      segments |-> LabeledSegments(<<<<"a", ".">>>>, <<"Speaker">>),
      language |-> "en"],
     [text |-> <<"b", "?", "c">>,
      segments |-> LabeledSegments(<<<<"b", "?">>, <<"c">>>>, <<"A", "Speaker">>),
      language |-> "en"]}

\* The transcripts save_transcript writes in the given format.
WellFormedFiles(format) ==
    {SaveTranscript(r, format) : r \in {x \in MergeResults : ~SaveRaises(x, format)}}

WithoutKind(lines, kind) == SelectSeq(lines, LAMBDA l : l.k # kind)

\* Transcripts that are not what save_transcript writes: a subtitle file
\* without its index lines or without its timestamp lines, a structured
\* file that is not a JSON document.
MalformedFiles(format) ==
    IF format = "srt"
    THEN {[lines |-> WithoutKind(f.lines, kind), json |-> <<>>] :
             f \in {x \in WellFormedFiles("srt") : x.lines # <<>>},
             kind \in {"num", "ts"}}
    ELSE IF format = "vtt"
    THEN {[lines |-> WithoutKind(f.lines, "ts"), json |-> <<>>] :
             f \in {x \in WellFormedFiles("vtt") : \E k \in 1..Len(x.lines) : x.lines[k].k = "ts"}}
    ELSE IF format = "json"
    THEN {[lines |-> <<TextLine(<<"{">>)>>, json |-> <<>>]}
    ELSE {}

\* The transcript of chunk n of the input, next to the chunk.
ChunkTranscriptPath(n, format) ==
    TranscriptPath(SegmentsDir(InputPath), SegmentPath(InputPath, n), <<>>, format)

InitMerge ==
    /\ Standalone
    /\ pc = "merge_only"
    /\ enhanced = Recognition(<<>>)
    /\ \E format \in Formats, n \in 0..MaxMergeChunks :
          /\ job = JobOf(format)
          /\ loc = [NoLocals EXCEPT
                       !.transcript_paths = [k \in 1..n |-> ChunkTranscriptPath(k, format)]]
          /\ \E present \in SUBSET (1..n) :
                \E f \in [present -> WellFormedFiles(format) \cup MalformedFiles(format)] :
                   text_files = [q \in {ChunkTranscriptPath(k, format) : k \in present} |->
                                    f[CHOOSE k \in present : ChunkTranscriptPath(k, format) = q]]

\* merge_transcripts(transcript_paths, original_filename, output_dir, format)
MergeAlone ==
    /\ pc = "merge_only"
    /\ LET merged_path == MergedPath(InputPath.dir, InputPath.stem, job.format)
       IN  IF MergeRaises(loc.transcript_paths, text_files, job.format)
           THEN /\ pc' = "merge_raised"
                /\ UNCHANGED <<text_files, returned>>
           ELSE /\ pc' = "merged"
                /\ text_files' =
                      (merged_path :> MergeTranscripts(loc.transcript_paths, text_files,
                                                       job.format)) @@ text_files
                /\ returned' = <<merged_path>>
    /\ UNCHANGED <<asgVars, env, webVars, selfVars, job, loc, audio_files, dirs, log>>

NextMerge == MergeAlone

SpecMerge == InitMerge /\ [][NextMerge]_vars

-----------------------------------------------------------------------------
(* _split_into_sentences alone: one call on a text of some words.          *)

MaxWords == 4

\* Words of a text: abbreviations of the pattern, capitalised and
\* lower-case words, words that end a sentence.
SplitWords ==
    {<<"D", "r", ".">>, <<"U", ".", "S", ".">>, <<"A", "l">>, <<"H", "e">>,
     <<"g", "o">>, <<"r", "a", "n", ".">>, <<"a", "r", "m", "s", ".">>,
     <<"s", "o", "!", "?">>}

InitSplit ==
    /\ Standalone
    /\ pc = "sentences"
    /\ job = JobOf("txt")
    /\ loc = NoLocals
    /\ text_files = <<>>
    /\ \E n \in 0..MaxWords :
          \E ws \in [1..n -> SplitWords] :
             enhanced = [text |-> JoinWith(ws, <<" ">>), segments |-> <<>>,
                         language |-> "en"]

\* sentences = self._split_into_sentences(text)
SplitSentences ==
    /\ pc = "sentences"
    /\ returned' = SplitIntoSentences(enhanced.text)
    /\ pc' = "sentences_done"
    /\ UNCHANGED <<asgVars, env, webVars, selfVars, job, loc, diskVars, log>>

NextSplit == SplitSentences

SpecSplit == InitSplit /\ [][NextSplit]_vars

-----------------------------------------------------------------------------
(* The web front end (app.py): the background threads that run            *)
(* transcribe_audio on the one shared AudioTranscriber, and a request for  *)
(* the status of a task.  Each thread runs transcribe_file on its own      *)
(* audio file; the chunk count stands for what split_large_audio returns.  *)

\* task_id = str(uuid.uuid4()): the tasks of two requests
TaskIds == {1, 2}

\* output_format = data.get('output_format', 'txt')
WebFormat == "txt"

\* len(segments): the asset is not split, or split in two
WebChunkCounts == {1, 2}

\* The audio file of the second request: the first one's base name with
\* another extension, or in another directory, or another base name.
OtherAudioFiles ==
    {Path(<<<<"downloads">>>>, <<"ep">>, "wav"),
     Path(<<<<"archive">>>>, <<"ep">>, "mp3"),
     Path(<<<<"downloads">>>>, <<"talk">>, "mp3")}

\* The labeled result of one chunk, as save_transcript receives it.
WebResult ==
    [text |-> <<"a", ".">>,
     segments |-> LabeledSegments(<<<<"a", ".">>>>, <<"Speaker">>),
     language |-> "en"]

Thread(audio_file, with_speakers, chunks) ==
    [pc |-> "spawned", audio_file |-> audio_file, with_speakers |-> with_speakers,
     chunks |-> chunks, i |-> 0, suffix |-> <<>>, original_diarization |-> FALSE,
     raised |-> FALSE, result |-> <<>>, touched |-> {}]

InitWeb ==
    /\ asg_pc = "idle"
    /\ transcription = Recognition(<<>>)
    /\ diarization = NoDiarization
    /\ enhanced = Recognition(<<>>)
    /\ pc = "web"
    /\ \E pyannote \in BOOLEAN, load \in {"ok", "failed"} :
          LET c == Constructed(TRUE, pyannote, load)
          IN  /\ env = [pydub |-> TRUE, pyannote |-> pyannote]
              /\ enable_diarization = c.enable
              /\ diarization_pipeline = c.pipeline
    /\ job = JobOf(WebFormat)
    /\ loc = NoLocals
    /\ dirs = {}
    /\ text_files = <<>>
    /\ returned = <<>>
    /\ log = <<>>
    /\ task_status = <<>>
    /\ task_results = <<>>
    /\ poll = [pc |-> "idle"]
    /\ \E other \in OtherAudioFiles, exists \in BOOLEAN,
          ws \in [TaskIds -> BOOLEAN], cs \in [TaskIds -> WebChunkCounts] :
          /\ audio_files = {InputPath} \cup (IF exists THEN {other} ELSE {})
          /\ threads = [t \in TaskIds |->
                           Thread(IF t = 1 THEN InputPath ELSE other, ws[t], cs[t])]

\* The thread of task t takes a step that leaves the rest of the web
\* state and the single-call variables alone.
WebFrame == UNCHANGED <<asgVars, pc, env, diarization_pipeline, job, loc, returned, log, poll>>

\* transcribe_audio up to the call of transcribe_file: the status is set,
\* a missing audio file raises.  (force_retranscribe is False.)
WebStart(t) ==
    /\ threads[t].pc = "spawned"
    /\ task_status' = (t :> "transcribing") @@ task_status
    /\ threads' = [threads EXCEPT ![t].pc =
                       IF threads[t].audio_file \in audio_files
                       THEN "transcribe_file" ELSE "except"]
    /\ WebFrame
    /\ UNCHANGED <<enable_diarization, diskVars, task_results>>

\* transcribe_file(audio_path, format=output_format,
\* enable_diarization=with_speakers) up to the try: the suffix, the saved
\* setting and its override.
WebBegin(t) ==
    /\ threads[t].pc = "transcribe_file"
    /\ threads' = [threads EXCEPT
          ![t].suffix = IF threads[t].with_speakers THEN <<"_speakers">> ELSE <<>>,
          ![t].original_diarization = enable_diarization,
          ![t].pc = "split"]
    /\ enable_diarization' = (threads[t].with_speakers /\ env.pyannote)
    /\ WebFrame
    /\ UNCHANGED <<diskVars, task_status, task_results>>

\* The chunk files split_large_audio writes for the thread's audio file.
WebSegments(t) ==
    IF threads[t].chunks = 1 THEN <<threads[t].audio_file>>
    ELSE [k \in 1..threads[t].chunks |-> SegmentPath(threads[t].audio_file, k)]

\* segments = self.split_large_audio(input_path, ...)
WebSplit(t) ==
    /\ threads[t].pc = "split"
    /\ LET written == IF threads[t].chunks = 1 THEN {}
                      ELSE {WebSegments(t)[k] : k \in 1..threads[t].chunks}
       IN  /\ audio_files' = audio_files \cup written
           /\ dirs' = IF threads[t].chunks = 1 THEN dirs
                      ELSE dirs \cup {SegmentsDir(threads[t].audio_file)}
           /\ threads' = [threads EXCEPT ![t].pc = "chunk", ![t].i = 1,
                                         ![t].touched = @ \cup written]
    /\ WebFrame
    /\ UNCHANGED <<enable_diarization, text_files, task_status, task_results>>

\* The transcript of chunk k of the thread's audio file.
WebTranscriptPath(t, k) ==
    IF threads[t].chunks = 1
    THEN TranscriptPath(threads[t].audio_file.dir, threads[t].audio_file,
                        threads[t].suffix, WebFormat)
    ELSE TranscriptPath(WebSegments(t)[k].dir, WebSegments(t)[k],
                        threads[t].suffix, WebFormat)

\* One chunk (or the whole file): preprocess_audio writes the processed
\* file, transcribe_audio returns or raises, save_transcript writes the
\* transcript; on the single path the processed file is then removed.
WebChunk(t) ==
    /\ threads[t].pc = "chunk"
    /\ LET th == threads[t]
           processed_path == ProcessedPath(WebSegments(t)[th.i])
           output == WebTranscriptPath(t, th.i)
       IN  \/ /\ audio_files' = audio_files \cup {processed_path}
              /\ text_files' = text_files
              /\ threads' = [threads EXCEPT ![t].pc = "finally", ![t].raised = TRUE,
                                            ![t].touched = @ \cup {processed_path}]
           \/ /\ audio_files' = IF th.chunks = 1 THEN audio_files \ {processed_path}
                                 ELSE audio_files \cup {processed_path}
              /\ text_files' = (output :> SaveTranscript(WebResult, WebFormat)) @@ text_files
              /\ threads' = [threads EXCEPT
                    ![t].pc = IF th.chunks = 1 THEN "finally"
                              ELSE IF th.i < th.chunks THEN "chunk" ELSE "merge",
                    ![t].i = IF th.i < th.chunks THEN @ + 1 ELSE @,
                    ![t].touched = @ \cup {processed_path, output}]
    /\ WebFrame
    /\ UNCHANGED <<enable_diarization, dirs, task_status, task_results>>

\* merge_transcripts and the clean-up of the processed files
WebMerge(t) ==
    /\ threads[t].pc = "merge"
    /\ LET th == threads[t]
           transcript_paths == [k \in 1..th.chunks |-> WebTranscriptPath(t, k)]
           cleanup_paths == {ProcessedPath(WebSegments(t)[k]) : k \in 1..th.chunks}
           merged_path == MergedPath(th.audio_file.dir, th.audio_file.stem, WebFormat)
       IN  /\ text_files' =
                 (merged_path :> MergeTranscripts(transcript_paths, text_files, WebFormat))
                     @@ text_files
           /\ audio_files' = audio_files \ cleanup_paths
           /\ threads' = [threads EXCEPT ![t].pc = "finally",
                                         ![t].touched = @ \cup {merged_path}]
    /\ WebFrame
    /\ UNCHANGED <<enable_diarization, dirs, task_status, task_results>>

\* finally: self.enable_diarization = original_diarization
WebFinally(t) ==
    /\ threads[t].pc = "finally"
    /\ enable_diarization' = threads[t].original_diarization
    /\ threads' = [threads EXCEPT ![t].pc = IF threads[t].raised THEN "except"
                                            ELSE "completed"]
    /\ WebFrame
    /\ UNCHANGED <<diskVars, task_status, task_results>>

\* transcribe_file returned: the status is set to completed, then
\* transcribe_audio returns its result.
WebCompleted(t) ==
    /\ threads[t].pc = "completed"
    /\ task_status' = (t :> "completed") @@ task_status
    /\ threads' = [threads EXCEPT ![t].pc = "return",
                                  ![t].result = <<[success |-> TRUE]>>]
    /\ WebFrame
    /\ UNCHANGED <<enable_diarization, diskVars, task_results>>

\* except Exception: the status is set to error, then transcribe_audio
\* returns its result.
WebExcept(t) ==
    /\ threads[t].pc = "except"
    /\ task_status' = (t :> "error") @@ task_status
    /\ threads' = [threads EXCEPT ![t].pc = "return",
                                  ![t].result = <<[success |-> FALSE]>>]
    /\ WebFrame
    /\ UNCHANGED <<enable_diarization, diskVars, task_results>>

\* The thread's target: task_results.update({task_id: <what
\* transcribe_audio returned>})
WebStoreResult(t) ==
    /\ threads[t].pc = "return"
    /\ task_results' = (t :> threads[t].result) @@ task_results
    /\ threads' = [threads EXCEPT ![t].pc = "ended"]
    /\ WebFrame
    /\ UNCHANGED <<enable_diarization, diskVars, task_status>>

PollFrame ==
    UNCHANGED <<asgVars, pc, env, selfVars, job, loc, diskVars, returned, log, task_status, task_results, threads>>

\* get_task_status: status = task_status.get(task_id, {"status": "unknown"})
PollStatus ==
    /\ poll.pc = "idle"
    /\ \E task_id \in TaskIds :
          poll' = [pc |-> "status_read", task_id |-> task_id,
                   status |-> IF task_id \in DOMAIN task_status
                              THEN task_status[task_id] ELSE "unknown"]
    /\ PollFrame

\* get_task_status: result = task_results.get(task_id), and the response,
\* which holds "result" only if there is one.
PollResult ==
    /\ poll.pc = "status_read"
    /\ poll' = [pc |-> "responded", task_id |-> poll.task_id, status |-> poll.status,
                result |-> IF poll.task_id \in DOMAIN task_results
                           THEN task_results[poll.task_id] ELSE <<>>]
    /\ PollFrame

NextWeb ==
    \/ \E t \in TaskIds : WebStart(t)
    \/ \E t \in TaskIds : WebBegin(t)
    \/ \E t \in TaskIds : WebSplit(t)
    \/ \E t \in TaskIds : WebChunk(t)
    \/ \E t \in TaskIds : WebMerge(t)
    \/ \E t \in TaskIds : WebFinally(t)
    \/ \E t \in TaskIds : WebCompleted(t)
    \/ \E t \in TaskIds : WebExcept(t)
    \/ \E t \in TaskIds : WebStoreResult(t)
    \/ PollStatus
    \/ PollResult

SpecWeb == InitWeb /\ [][NextWeb]_vars

-----------------------------------------------------------------------------
(* Claims about the Speaker Assigner, checked under SpecAssign.            *)

AssignDone == asg_pc = "done"
DiarizedDone == AssignDone /\ diarization.available
GenericDone == AssignDone /\ ~diarization.available

InSegs == transcription.segments
OutSegs == enhanced.segments
Timeline == diarization.speakers

Min(S) == CHOOSE x \in S : \A y \in S : x <= y

\* The first turn whose interval contains the midpoint (mid2 is twice the
\* midpoint), the interval closed at its end or not; 0 when there is none.
FirstTurnAround(tl, mid2, closed) ==
    LET hits == {k \in 1..Len(tl) :
                    /\ 2 * tl[k].start <= mid2
                    /\ IF closed THEN mid2 <= 2 * tl[k].end
                                 ELSE mid2 < 2 * tl[k].end}
    IN  IF hits = {} THEN 0 ELSE Min(hits)

LabelledFromTurn(tl, seg, k) ==
    seg.speaker = IF k = 0 THEN "Unknown" ELSE GetSpeakerMapping(tl)[tl[k].speaker]

\* C5 (as claimed): every segment is labelled from the first turn whose
\* half-open interval [start, end) contains its midpoint, a midpoint equal
\* to a turn's end not being inside that turn, and "Unknown" when no turn does.
C5_HalfOpenInterval ==
    DiarizedDone =>
        \A j \in 1..Len(InSegs) :
            LabelledFromTurn(Timeline, OutSegs[j],
                FirstTurnAround(Timeline, InSegs[j].start + InSegs[j].end, FALSE))

\* C5 (amended): every segment is labelled from the first turn whose closed
\* interval [start, end] contains its midpoint, a midpoint equal to a
\* turn's end being inside that turn, and "Unknown" when no turn does.
C5_ClosedInterval ==
    DiarizedDone =>
        /\ Len(OutSegs) = Len(InSegs)
        /\ \A j \in 1..Len(InSegs) :
              LabelledFromTurn(Timeline, OutSegs[j],
                  FirstTurnAround(Timeline, InSegs[j].start + InSegs[j].end, TRUE))

\* C5 witness: a segment whose midpoint is the end of the first turn that
\* holds it and lies in no turn's half-open interval is labelled from that
\* turn, and another segment of the same call is "Unknown".
C5_MidpointAtTurnEnd ==
    /\ DiarizedDone
    /\ \E j \in 1..Len(InSegs) :
          LET mid2 == InSegs[j].start + InSegs[j].end
              k == FirstTurnAround(Timeline, mid2, TRUE)
          IN  /\ k # 0
              /\ mid2 = 2 * Timeline[k].end
              /\ FirstTurnAround(Timeline, mid2, FALSE) = 0
              /\ OutSegs[j].speaker # "Unknown"
    /\ \E j \in 1..Len(InSegs) : OutSegs[j].speaker = "Unknown"

\* The place of an id among the distinct ids of the timeline: in the order
\* of first appearance, and in the lexicographic order of the ids.
PlaceFirstSeen(tl, id) ==
    LET first == Min({k \in 1..Len(tl) : tl[k].speaker = id})
    IN  1 + Cardinality({tl[k].speaker : k \in 1..first - 1})

PlaceLexicographic(tl, id) ==
    1 + Cardinality({x \in SpeakerIdsOf(tl) : LexLess(x, id)})

\* C6 (as claimed): the display labels follow the order in which the ids
\* are first encountered in the turns: a segment labelled from a turn gets
\* the letter whose place is that of the turn's id in first-encountered order.
C6_FirstEncounteredOrder ==
    DiarizedDone =>
        \A j \in 1..Len(InSegs) :
            LET k == FirstTurnAround(Timeline, InSegs[j].start + InSegs[j].end, TRUE)
            IN  k # 0 =>
                  OutSegs[j].speaker = Letters[PlaceFirstSeen(Timeline, Timeline[k].speaker)]

\* C6 (amended): the display labels follow the lexicographic order of the
\* distinct ids: a segment labelled from a turn gets the letter whose place
\* is that of the turn's id among the sorted ids, so with n ids reported
\* the labels used are among the first n letters.
C6_LexicographicOrder ==
    DiarizedDone =>
        \A j \in 1..Len(InSegs) :
            LET k == FirstTurnAround(Timeline, InSegs[j].start + InSegs[j].end, TRUE)
            IN  k # 0 =>
                  /\ OutSegs[j].speaker = Letters[PlaceLexicographic(Timeline, Timeline[k].speaker)]
                  /\ \E n \in 1..Cardinality(SpeakerIdsOf(Timeline)) :
                        OutSegs[j].speaker = Letters[n]

\* C6 witness: two speakers, the first turn naming the lexicographically
\* larger id; the segment in that turn is "B" and a later one is "A".
C6_LaterIdSortsFirst ==
    /\ DiarizedDone
    /\ Cardinality(SpeakerIdsOf(Timeline)) = 2
    /\ Len(Timeline) = 2
    /\ LexLess(Timeline[2].speaker, Timeline[1].speaker)
    /\ Len(OutSegs) = 2
    /\ FirstTurnAround(Timeline, InSegs[1].start + InSegs[1].end, TRUE) = 1
    /\ OutSegs[1].speaker = "B"
    /\ OutSegs[2].speaker = "A"

\* C7 (as claimed): for both algorithms the assigner returns as many
\* segments as it was given, in the same order, each with a non-empty label.
C7_OneLabeledPerSegment ==
    AssignDone =>
        /\ Len(OutSegs) = Len(InSegs)
        /\ \A j \in 1..Len(InSegs) :
              /\ OutSegs[j].start = InSegs[j].start
              /\ OutSegs[j].end = InSegs[j].end
              /\ OutSegs[j].text = InSegs[j].text
              /\ OutSegs[j].speaker # ""

\* Cut points 0 = c[1] < ... < c[m + 1] = n under which out[k] spans the
\* input segments c[k] + 1 .. c[k + 1].
SpansInOrder(in, out) ==
    \E c \in [1..Len(out) + 1 -> 0..Len(in)] :
        /\ c[1] = 0
        /\ c[Len(out) + 1] = Len(in)
        /\ \A k \in 1..Len(out) :
              /\ c[k] < c[k + 1]
              /\ out[k].start = in[c[k] + 1].start
              /\ out[k].end = in[c[k + 1]].end

\* C7 (amended): the label is never null and no segment is lost.  The
\* diarization-driven algorithm returns as many segments as it was given,
\* in the same order.  The heuristic returns one labeled segment per block
\* of consecutive segments: at most as many as it was given, none only for
\* no input, the blocks covering the input in order without gap or overlap,
\* each labelled "Speaker".
C7_LabeledPerSegmentOrBlock ==
    /\ DiarizedDone =>
          /\ Len(OutSegs) = Len(InSegs)
          /\ \A j \in 1..Len(InSegs) :
                /\ OutSegs[j].start = InSegs[j].start
                /\ OutSegs[j].end = InSegs[j].end
                /\ OutSegs[j].text = InSegs[j].text
                /\ OutSegs[j].speaker \in {"Unknown"} \cup {Letters[n] : n \in 1..Len(Letters)}
    /\ GenericDone =>
          /\ Len(OutSegs) <= Len(InSegs)
          /\ SpansInOrder(InSegs, OutSegs)
          /\ \A k \in 1..Len(OutSegs) : OutSegs[k].speaker = "Speaker"

\* C7 witness: the heuristic has returned two labeled segments for three
\* recognized ones.
C7_BlockOfTwo ==
    /\ GenericDone
    /\ Len(InSegs) = 3
    /\ Len(OutSegs) = 2
    /\ OutSegs[1].end = InSegs[2].end

\* The gap before segment i, and the claim's condition on it.
GapBefore(segs, i) == segs[i].start - segs[i - 1].end

PauseBoundary(segs, i) ==
    \/ GapBefore(segs, i) > 1500
    \/ /\ GapBefore(segs, i) > 800
       /\ LET t == Strip(segs[i - 1].text)
          IN  t # <<>> /\ t[Len(t)] \in {".", "!", "?", "U+3002", "U+FF01", "U+FF1F"}

\* C10: in the pause heuristic a new block starts at segment i (i > 0) if
\* and only if the gap to the previous segment's end exceeds 1.5 s, or
\* exceeds 0.8 s with the previous trimmed text ending in terminal
\* punctuation; otherwise segment i joins the current block.  (The input
\* segments have distinct starts, so a block is known by its start.)
C10_BlockStartsIffPause ==
    GenericDone =>
        /\ \A i \in 2..Len(InSegs) :
              (\E k \in 1..Len(OutSegs) : OutSegs[k].start = InSegs[i].start)
                  <=> PauseBoundary(InSegs, i)
        /\ Len(OutSegs) =
              Cardinality({i \in 1..Len(InSegs) : i = 1 \/ PauseBoundary(InSegs, i)})

\* C10 witness: three segments; the second follows a sentence end after
\* 0.801 s and starts a block, the third follows a pause of exactly 1.5 s
\* and joins it.
C10_SentencePauseSplits ==
    /\ GenericDone
    /\ Len(InSegs) = 3
    /\ GapBefore(InSegs, 2) = 801
    /\ GapBefore(InSegs, 3) = 1500
    /\ ~PauseBoundary(InSegs, 3)
    /\ Len(OutSegs) = 2
    /\ OutSegs[2].start = InSegs[2].start
    /\ OutSegs[2].end = InSegs[3].end

\* Segment i of the input starts a block of the output.
BlockStartsAt(i) == \E k \in 1..Len(OutSegs) : OutSegs[k].start = InSegs[i].start

\* C11 (as claimed): a block boundary of the pause heuristic occurs only
\* between two consecutive segments whose gap is at least the pause
\* threshold of 1.5 s.
C11_BoundaryOnlyAtLongPause ==
    GenericDone =>
        \A i \in 2..Len(InSegs) :
            BlockStartsAt(i) => GapBefore(InSegs, i) >= 1500

\* C11 (amended): a block boundary occurs only between two consecutive
\* segments whose gap exceeds 0.8 s, and at a gap of at most 1.5 s only
\* when the previous segment's trimmed text ends in terminal punctuation.
C11_BoundaryOnlyAtPause ==
    GenericDone =>
        \A i \in 2..Len(InSegs) :
            BlockStartsAt(i) =>
                /\ GapBefore(InSegs, i) > 800
                /\ (GapBefore(InSegs, i) <= 1500 =>
                       LET t == Strip(InSegs[i - 1].text)
                       IN  t # <<>> /\ t[Len(t)] \in TerminalPunct)

\* C11 witness: a block boundary at a gap of 0.801 s, after a sentence end.
C11_BoundaryAtShortPause ==
    /\ GenericDone
    /\ Len(InSegs) >= 2
    /\ GapBefore(InSegs, 2) = 801
    /\ BlockStartsAt(2)
    /\ Len(OutSegs) >= 2

\* The characters of a text that are not white space.
NonWhite(t) == SelectSeq(t, LAMBDA ch : ch \notin Whitespace)

\* The texts of segs[from..to], one after the other.
TextsOf(segs, from, to) == Flatten([j \in 1..(to - from + 1) |-> segs[from + j - 1].text])

\* C12: each block of the pause heuristic is emitted as one labeled
\* segment: it starts where the block's first member starts, ends where the
\* last member ends, its text is the members' texts in order (white space
\* between and around members aside), its label is "Speaker"; the blocks
\* are emitted in input order, no member dropped or repeated.
C12_BlockMergedIntoOneSegment ==
    GenericDone =>
        \E c \in [1..Len(OutSegs) + 1 -> 0..Len(InSegs)] :
            /\ c[1] = 0
            /\ c[Len(OutSegs) + 1] = Len(InSegs)
            /\ \A k \in 1..Len(OutSegs) :
                  /\ c[k] < c[k + 1]
                  /\ \A i \in (c[k] + 2)..c[k + 1] : ~PauseBoundary(InSegs, i)
                  /\ k > 1 => PauseBoundary(InSegs, c[k] + 1)
                  /\ OutSegs[k].start = InSegs[c[k] + 1].start
                  /\ OutSegs[k].end = InSegs[c[k + 1]].end
                  /\ NonWhite(OutSegs[k].text)
                        = NonWhite(TextsOf(InSegs, c[k] + 1, c[k + 1]))
                  /\ OutSegs[k].speaker = "Speaker"

\* C12 witness: a block of two members with text, then a block of one.
C12_TwoMembersThenOne ==
    /\ GenericDone
    /\ Len(InSegs) = 3
    /\ Len(OutSegs) = 2
    /\ OutSegs[1].end = InSegs[2].end
    /\ Strip(InSegs[1].text) # <<>>
    /\ Strip(InSegs[2].text) # <<>>
    /\ OutSegs[1].text = Strip(InSegs[1].text) \o <<" ">> \o Strip(InSegs[2].text)
    /\ OutSegs[2].text = InSegs[3].text

\* The turns do not overlap (they may touch at an endpoint).
NonOverlapping(tl) ==
    \A i \in 1..Len(tl), j \in 1..Len(tl) :
        i # j => (tl[i].end <= tl[j].start \/ tl[j].end <= tl[i].start)

\* The lists that hold the turns of tl in some order.
Reorderings(tl) ==
    {[k \in 1..Len(tl) |-> tl[p[k]]] : p \in Permutations(1..Len(tl))}

LabelsOf(segs) == [k \in 1..Len(segs) |-> segs[k].speaker]

\* C26 (as claimed): for pairwise non-overlapping turns, assigning with
\* any permutation of the turn list gives every segment the label it gets
\* with the turns sorted by start time.
C26_LabelsIndependentOfTurnOrder ==
    (DiarizedDone /\ NonOverlapping(Timeline)) =>
        \A tl \in Reorderings(Timeline) :
            LabelsOf(AssignSpeakersToSegments(InSegs,
                         [available |-> TRUE, speakers |-> tl]))
                = LabelsOf(OutSegs)

-----------------------------------------------------------------------------
(* Claims about the Segmenter, the pipeline and the Merger, checked under  *)
(* Spec.                                                                   *)

Logged(op) == \E k \in 1..Len(log) : log[k].op = op
LoggedAt(op, n) == \E k \in 1..Len(log) : log[k] = Event(op, n)
FileAt(path) == text_files[path]

\* The <<start, end>> pairs of a transcript file, in order, in milliseconds:
\* the segments of a structured file, the timestamp lines of a subtitle file.
RECURSIVE TimesOfLines(_)
TimesOfLines(lines) ==
    IF lines = <<>> THEN <<>>
    ELSE (IF Head(lines).k = "ts"
          THEN <<<<Head(lines).a.hh * 3600000 + Head(lines).a.mm * 60000
                     + Head(lines).a.ss * 1000 + Head(lines).a.mmm,
                   Head(lines).b.hh * 3600000 + Head(lines).b.mm * 60000
                     + Head(lines).b.ss * 1000 + Head(lines).b.mmm>>>>
          ELSE <<>>) \o TimesOfLines(Tail(lines))

TimesOf(file) ==
    IF file.json # <<>>
    THEN [j \in 1..Len(file.json[1].segments) |->
             <<file.json[1].segments[j].start, file.json[1].segments[j].end>>]
    ELSE TimesOfLines(file.lines)

ShiftedTimes(times, by) ==
    [j \in 1..Len(times) |-> <<times[j][1] + by, times[j][2] + by>>]

MergedDone == pc = "done" /\ Len(loc.segments) > 1

\* C1 (as claimed): in the merged subtitle and structured outputs every
\* timestamp of chunk i (0-based) is its chunk-local time shifted by exactly
\* i * D * 60 seconds, D the configured chunk duration in minutes, for
\* every configured D.
C1_OffsetFollowsConfiguredDuration ==
    MergedDone =>
        TimesOf(FileAt(returned[1])) =
            Flatten([n \in 1..Len(loc.transcript_paths) |->
                ShiftedTimes(TimesOf(FileAt(loc.transcript_paths[n])),
                             (n - 1) * job.segment_minutes * 60 * 1000)])

SplitDone == Logged("split")

\* C2: a split of decoded length L by chunk length S returns ceil(L / S)
\* chunks in index order, chunk k (0-based) covering exactly
\* [k * S, min((k + 1) * S, L)): no overlap, no gap, together [0, L), every
\* chunk but possibly the last of length S, and none empty.
C2_ChunksPartitionTheAudio ==
    SplitDone =>
        LET L == job.len_audio
            S == job.segment_minutes * 60 * 1000
            ch == loc.chunks
        IN  /\ Len(ch) * S >= L
            /\ (Len(ch) - 1) * S < L \/ Len(ch) = 0
            /\ Len(loc.segments) = Len(ch)
            /\ \A k \in 1..Len(ch) :
                  /\ loc.segments[k] = ch[k].path
                  /\ ch[k].path = SegmentPath(InputPath, k)
                  /\ ch[k].path \in audio_files \/ pc = "done"
                  /\ ch[k].from = (k - 1) * S
                  /\ ch[k].to = IF k * S < L THEN k * S ELSE L
                  /\ ch[k].from < ch[k].to
                  /\ k < Len(ch) => ch[k].to - ch[k].from = S /\ ch[k].to = ch[k + 1].from
            /\ Len(ch) > 0 => ch[1].from = 0 /\ ch[Len(ch)].to = L

\* C2 witness: three chunks, the last one shorter than the chunk length.
C2_ShortLastChunk ==
    /\ SplitDone
    /\ Len(loc.chunks) = 3
    /\ loc.chunks[3].to - loc.chunks[3].from = 1
    /\ loc.chunks[2].to - loc.chunks[2].from = job.segment_minutes * 60 * 1000

\* C3: for an asset whose size is at most the threshold, split_large_audio
\* returns the original path alone, writes no chunk file and creates no
\* segments directory.
C3_SmallAssetIsNotSplit ==
    (pc \notin {"start", "split"}
        /\ job.size_bytes <= job.max_size_mb * 1024 * 1024) =>
        /\ loc.segments = <<InputPath>>
        /\ dirs = {}
        /\ \A p \in audio_files : p.dir = InputPath.dir
        /\ ~Logged("split") /\ ~Logged("split_failed")

\* C3 witness: an asset of exactly the threshold, long enough for three
\* chunks, with pydub at hand, has come back from the Segmenter unsplit.
C3_AtThresholdUnsplit ==
    /\ pc = "preprocess"
    /\ env.pydub
    /\ job.size_bytes = job.max_size_mb * 1024 * 1024
    /\ job.segment_minutes > 0
    /\ job.len_audio > 2 * job.segment_minutes * 60 * 1000
    /\ loc.segments = <<InputPath>>

\* C4 (as claimed): merge_transcripts is called if and only if the
\* Segmenter returned at least two chunks; otherwise the single chunk's own
\* transcript is the final artifact.
C4_MergeIffSeveralChunks ==
    /\ Logged("merge") => Len(loc.segments) >= 2
    /\ (pc = "done" /\ Len(loc.segments) >= 2) => Logged("merge")
    /\ (pc = "done" /\ Len(loc.segments) < 2) =>
          returned = <<TranscriptPath(InputPath.dir, InputPath, loc.suffix, job.format)>>

\* The chunk of the last call logged, and whether its diarization was
\* unavailable (setting off, no pipeline loaded, or the engine raised).
UnavailableAt(n) == LoggedAt("no_diarize", n) \/ LoggedAt("diarize_failed", n)

\* C8: diarization being unavailable is never an error: perform_diarization
\* returns the unavailable value without raising, the recognition engine
\* is the next call made for that chunk, and the chunk's segments are
\* labelled by the pause heuristic.
C8_UnavailableDiarizationIsNoError ==
    /\ \A k \in 1..Len(log) :
          log[k].op \in {"no_diarize", "diarize_failed"} =>
              IF k = Len(log)
              THEN pc = "recognize" /\ diarization = NoDiarization
              ELSE /\ log[k + 1].op \in {"recognize", "recognize_failed"}
                   /\ log[k + 1].n = log[k].n
    /\ \A k \in 1..Len(log) :
          (log[k].op = "save" /\ UnavailableAt(log[k].n)
              /\ \A m \in k + 1..Len(log) : log[m].op \notin {"save", "recognize"}) =>
                /\ \A j \in 1..Len(enhanced.segments) :
                      enhanced.segments[j].speaker = "Speaker"
                /\ Len(enhanced.segments) =
                      Cardinality({i \in 1..Len(transcription.segments) :
                          i = 1 \/ PauseBoundary(transcription.segments, i)})

\* C8 witness: with a pipeline loaded, the engine raised on the second
\* chunk after diarizing the first; the job is done and the second chunk's
\* segments are labelled "Speaker".
C8_EngineRaisedOnSecondChunk ==
    /\ pc = "done"
    /\ Len(loc.segments) = 2
    /\ LoggedAt("diarize", 1)
    /\ LoggedAt("diarize_failed", 2)
    /\ Len(enhanced.segments) = 2
    /\ enhanced.segments[1].speaker = "Speaker"

\* C9: when decoding the oversize asset or exporting a chunk fails inside
\* the Segmenter, split_large_audio raises nothing and returns exactly the
\* original asset, never a partial chunk list, and transcribe_file takes
\* the single-file workflow on the original asset.
C9_FailedSplitFallsBackToOriginal ==
    Logged("split_failed") =>
        /\ loc.segments = <<InputPath>>
        /\ ~Logged("merge")
        /\ pc = "raised" => log[Len(log)] \in {Event("recognize_failed", 1),
                                                Event("save_failed", 1)}
        /\ pc \in {"diarize", "recognize", "assign"} =>
              loc.transcribe_path \in {InputPath, ProcessedPath(InputPath)}
        /\ pc = "done" =>
              /\ returned = <<TranscriptPath(InputPath.dir, InputPath, loc.suffix,
                                             job.format)>>
              /\ returned[1] \in DOMAIN text_files
              /\ InputPath \in audio_files

\* C9 witness: the export of the second chunk failed, the first chunk's
\* file is on disk, and the job has returned the original's transcript.
C9_ExportFailedAfterFirstChunk ==
    /\ pc = "done"
    /\ LoggedAt("split_failed", 2)
    /\ SegmentPath(InputPath, 1) \in audio_files
    /\ loc.segments = <<InputPath>>
    /\ returned = <<TranscriptPath(InputPath.dir, InputPath, loc.suffix, job.format)>>

\* The events of the work on one chunk, and their place in that work.
StepOf(op) ==
    IF op = "preprocess" THEN 1
    ELSE IF op \in {"diarize", "diarize_failed", "no_diarize", "raise"} THEN 2
    ELSE IF op \in {"recognize", "recognize_failed"} THEN 3
    ELSE IF op \in {"save", "save_failed"} THEN 4
    ELSE 0
IsChunkEvent(e) == StepOf(e.op) > 0

\* The transcript of chunk n of a job of several chunks.
TranscriptOfChunk(n) ==
    TranscriptPath(loc.segments[n].dir, loc.segments[n], loc.suffix, job.format)

\* C18: when the recognition engine fails on chunk k of a job of several
\* chunks, transcribe_file raises, merge_transcripts is not called and no
\* merged file is written, no chunk after k is worked on, and the chunks'
\* audio files and the transcripts of the chunks before k stay in place.
C18_RecognitionFailureEndsTheJob ==
    \A m \in 1..Len(log) :
        (log[m].op = "recognize_failed" /\ Len(loc.segments) > 1) =>
            LET k == log[m].n
            IN  /\ m = Len(log)
                /\ pc = "raised"
                /\ returned = <<>>
                /\ ~Logged("merge")
                /\ MergedPath(InputPath.dir, InputPath.stem, job.format)
                      \notin DOMAIN text_files
                /\ \A j \in 1..Len(log) : IsChunkEvent(log[j]) => log[j].n <= k
                /\ \A j \in 1..Len(loc.segments) : loc.segments[j] \in audio_files
                /\ \A j \in 1..Len(loc.segments) :
                      TranscriptOfChunk(j) \in DOMAIN text_files <=> j < k

\* C18 witness: three chunks, the recognition of the second failed after
\* the first one's transcript was written.
C18_FailedOnSecondOfThree ==
    /\ Len(loc.segments) = 3
    /\ log[Len(log)] = Event("recognize_failed", 2)
    /\ pc = "raised"
    /\ TranscriptOfChunk(1) \in DOMAIN text_files

\* C19: within one job the pipeline is strictly sequential: the work on
\* chunk i + 1 begins only after chunk i was recognized, labelled and
\* saved; a recognition call is over (its result saved, or the job ended)
\* before the next one is made; the merge starts only after every chunk's
\* transcript was saved, and receives the transcripts in chunk order.
C19_ChunksOneAfterTheOther ==
    /\ \A b \in 1..Len(log) :
          IsChunkEvent(log[b]) =>
              \A a \in 1..b - 1 :
                  IsChunkEvent(log[a]) =>
                      \/ log[a].n < log[b].n
                      \/ /\ log[a].n = log[b].n
                         /\ StepOf(log[a].op) < StepOf(log[b].op)
    /\ \A b \in 1..Len(log) :
          (IsChunkEvent(log[b]) /\ StepOf(log[b].op) = 1 /\ log[b].n > 1) =>
              log[b - 1] = Event("save", log[b].n - 1)
    /\ \A a \in 1..Len(log) - 1 :
          log[a].op = "recognize" =>
              log[a + 1] \in {Event("save", log[a].n), Event("save_failed", log[a].n)}
    /\ \A m \in 1..Len(log) :
          log[m].op = "merge" =>
              /\ log[m].n = Len(loc.segments)
              /\ \A i \in 1..Len(loc.segments) :
                    \E c \in 1..m - 1 : log[c] = Event("save", i)
              /\ \A j \in 1..m - 1 : log[j].op # "merge"
              /\ loc.transcript_paths =
                    [i \in 1..Len(loc.segments) |-> TranscriptOfChunk(i)]
    /\ (pc = "recognize" /\ loc.i > 1) => LoggedAt("save", loc.i - 1)

\* C19 witness: a job of three chunks, merged after the third was saved.
C19_ThreeChunksThenMerge ==
    /\ pc = "done"
    /\ Len(loc.segments) = 3
    /\ LoggedAt("merge", 3)
    /\ \A i \in 1..3 : LoggedAt("recognize", i) /\ LoggedAt("save", i)

\* The text lines of a plain transcript, in order.
TextLinesOf(file) == SelectSeq(file.lines, LAMBDA l : l.k = "text")

\* Every text line is "Speaker: " and a sentence.
AllSpeakerPrefixed(file) ==
    \A k \in 1..Len(TextLinesOf(file)) :
        LET t == TextLinesOf(file)[k].s
        IN  Len(t) > 3 /\ SubSeq(t, 1, 3) = <<"Speaker", ":", " ">>

\* The sentences of a plain transcript: its text lines after the prefix.
SentencesOf(file) ==
    [k \in 1..Len(TextLinesOf(file)) |->
        SubSeq(TextLinesOf(file)[k].s, 4, Len(TextLinesOf(file)[k].s))]

\* The sentences of the labeled segments, segment after segment.
SentencesOfSegments(segs) ==
    Flatten([k \in 1..Len(segs) |-> SplitIntoSentences(Strip(segs[k].text))])

\* No diarization was available for any chunk of the job.
NeverDiarized == ~Logged("diarize")

\* C20: end to end, for an asset split into N chunks with diarization
\* unavailable for all of them, the merged plain text holds exactly the
\* sentences of every chunk, in chunk order and in sentence order within a
\* chunk, each prefixed "Speaker:", none duplicated and none dropped.
\* A chunk's transcript holds the sentences of the chunk's labeled blocks,
\* which hold every recognized character; the merged file holds the
\* sentences of the chunks' transcripts, one chunk after the other.
C20_MergedPlainTextHoldsEverySentence ==
    /\ (job.format = "txt" /\ Len(loc.segments) > 1 /\ Len(log) > 0
            /\ log[Len(log)].op = "save" /\ diarization = NoDiarization) =>
          LET file == FileAt(TranscriptOfChunk(log[Len(log)].n))
          IN  /\ AllSpeakerPrefixed(file)
              /\ SentencesOf(file) = SentencesOfSegments(enhanced.segments)
              /\ NonWhite(Flatten(SentencesOf(file))) = NonWhite(transcription.text)
    /\ (MergedDone /\ job.format = "txt" /\ NeverDiarized) =>
          /\ AllSpeakerPrefixed(FileAt(returned[1]))
          /\ SentencesOf(FileAt(returned[1])) =
                Flatten([n \in 1..Len(loc.segments) |->
                            SentencesOf(FileAt(TranscriptOfChunk(n)))])

\* C20 witness: three chunks with speech and no diarization, merged into
\* nine sentences, three of each chunk.
C20_ThreeChunksNineSentences ==
    /\ MergedDone /\ job.format = "txt" /\ NeverDiarized
    /\ Len(loc.segments) = 3
    /\ \A n \in 1..3 : Len(SentencesOf(FileAt(TranscriptOfChunk(n)))) = 3
    /\ Len(SentencesOf(FileAt(returned[1]))) = 9
    /\ SentencesOf(FileAt(returned[1]))[4] = <<"a", ".">>

\* C22: the input asset is read-only to the pipeline.  On every path
\* through transcribe_file the input file is still there, no transcript is
\* written at its path, and the chunk files written, the processed file
\* written and the files to clean up are other paths than the input's.
C22_InputAssetUntouched ==
    /\ InputPath \in audio_files
    /\ InputPath \notin DOMAIN text_files
    /\ \A k \in 1..Len(loc.cleanup_paths) : loc.cleanup_paths[k] # InputPath
    /\ Len(loc.segments) > 1 =>
          \A k \in 1..Len(loc.segments) : loc.segments[k] # InputPath
    /\ \A p \in audio_files \ {InputPath} :
          p.dir = SegmentsDir(InputPath) \/ p = ProcessedPath(InputPath)

\* C22 witness: a single-chunk job whose preprocessing failed has returned:
\* the file it transcribed, and did not remove, is the input itself.
C22_PreprocessFailedInputKept ==
    /\ pc = "done" /\ Single
    /\ job.preprocess /\ env.pydub
    /\ loc.transcribe_path = InputPath
    /\ InputPath \in audio_files

-----------------------------------------------------------------------------
(* Claims about the Formatter, checked under SpecSave.                     *)

SavedFile == text_files[TranscriptPath(InputPath.dir, InputPath, <<>>, job.format)]

\* The number of lines of the given kind.
CountLines(lines, kind) == Cardinality({k \in 1..Len(lines) : lines[k].k = kind})

\* The segments whose text is not empty after trimming.
WithText(segs) == {k \in 1..Len(segs) : Strip(segs[k].text) # <<>>}

\* C13 (as claimed): for every style and every list of labeled segments,
\* an empty list and a list of white-space-only texts included,
\* save_transcript completes without raising.
C13_SaveNeverRaises == pc # "save_raised"

\* C14 (as claimed): a labeled segment whose text is empty after trimming
\* adds no line to the plain output and no block to a subtitle output, so
\* the subtitle output holds as many blocks (and indices) as there are
\* segments with text; the structured output holds every segment.
C14_EmptySegmentContributesNothing ==
    (pc = "saved" /\ enhanced.segments # <<>>) =>
        LET segs == enhanced.segments
            lines == SavedFile.lines
        IN  /\ job.format = "txt" =>
                  \A k \in 1..Len(lines) : lines[k].k = "text" => Len(lines[k].s) > 3
            /\ job.format = "srt" =>
                  /\ CountLines(lines, "num") = Cardinality(WithText(segs))
                  /\ CountLines(lines, "ts") = Cardinality(WithText(segs))
            /\ job.format = "vtt" =>
                  CountLines(lines, "ts") = Cardinality(WithText(segs))
            /\ job.format = "json" =>
                  SavedFile.json[1].segments = segs

\* The paragraphs "<speaker>: <sentence>" of the labeled segments, segment
\* by segment and sentence by sentence, one line each.
ParagraphsOf(segs) ==
    Flatten([k \in 1..Len(segs) |->
        LET sentences == SplitIntoSentences(Strip(segs[k].text))
        IN  [j \in 1..Len(sentences) |->
                <<TextLine(<<segs[k].speaker, ":", " ">> \o sentences[j])>>]])

-----------------------------------------------------------------------------
(* Claims about the Merger, checked under SpecMerge.                       *)

MergeOnlyDone == pc = "merged"
MergedFile == text_files[MergedPath(InputPath.dir, InputPath.stem, job.format)]
ChunkPaths == loc.transcript_paths
ChunkPresent(n) == ChunkPaths[n] \in DOMAIN text_files
ChunkFile(n) == text_files[ChunkPaths[n]]

\* The lines of chunk n's transcript (none when the file is missing).
ChunkLines(n) == IF ChunkPresent(n) THEN ChunkFile(n).lines ELSE <<>>

\* C15 (as claimed): the plain merge output is the non-empty contents of
\* the chunks, in chunk order, joined by one blank line: an empty or
\* missing chunk adds neither content nor separator, so the output does not
\* begin or end with a separator and has no two separators in a row.
C15_NonEmptyContentsJoined ==
    (MergeOnlyDone /\ job.format = "txt") =>
        MergedFile.lines =
            JoinWith(SelectNonEmpty([n \in 1..Len(ChunkPaths) |->
                                        StripContent(ChunkLines(n))]),
                     <<BlankLine>>)

\* The numbers carried by the index lines, in order.
IndicesOf(lines) ==
    LET nums == SelectSeq(lines, LAMBDA l : l.k = "num")
    IN  [k \in 1..Len(nums) |-> nums[k].n]

\* The timestamp and text lines, in order, white space trimmed.
BlockBodies(lines) ==
    LET body == SelectSeq(lines, LAMBDA l : l.k = "text")
    IN  [k \in 1..Len(body) |-> Strip(body[k].s)]

RECURSIVE SumTo(_, _)
SumTo(f, n) == IF n = 0 THEN 0 ELSE f[n] + SumTo(f, n - 1)

\* Every transcript present is one that save_transcript writes.
AllWellFormed ==
    \A n \in 1..Len(ChunkPaths) :
        ChunkPresent(n) => ChunkFile(n) \in WellFormedFiles(job.format)

\* C16: in the merged srt output the indices are renumbered globally and
\* continuously: for chunks of n_0, ..., n_(k-1) blocks the merged file
\* holds n_0 + ... + n_(k-1) blocks, in chunk order and in-chunk order,
\* with the indices 1, 2, ..., N.
C16_IndicesRenumbered ==
    (MergeOnlyDone /\ job.format = "srt" /\ AllWellFormed) =>
        LET blocks == [n \in 1..Len(ChunkPaths) |-> CountLines(ChunkLines(n), "num")]
            N == SumTo(blocks, Len(ChunkPaths))
        IN  /\ IndicesOf(MergedFile.lines) = [k \in 1..N |-> k]
            /\ CountLines(MergedFile.lines, "ts") = N
            /\ BlockBodies(MergedFile.lines) =
                  Flatten([n \in 1..Len(ChunkPaths) |-> BlockBodies(ChunkLines(n))])
            /\ \A k \in 1..Len(MergedFile.lines) :
                  MergedFile.lines[k].k = "num" =>
                      /\ k + 2 <= Len(MergedFile.lines)
                      /\ MergedFile.lines[k + 1].k = "ts"
                      /\ MergedFile.lines[k + 2].k = "text"

\* C16 witness: a chunk of one block and a chunk of two, merged into the
\* blocks 1, 2, 3.
C16_OneBlockThenTwo ==
    /\ MergeOnlyDone /\ job.format = "srt" /\ AllWellFormed
    /\ Len(ChunkPaths) = 2
    /\ IndicesOf(ChunkLines(1)) = <<1>>
    /\ IndicesOf(ChunkLines(2)) = <<1, 2>>
    /\ IndicesOf(MergedFile.lines) = <<1, 2, 3>>

\* C17 (as claimed): when a chunk's transcript is malformed, the merge
\* does not raise, nothing of that chunk is in the merged output and the
\* other chunks are merged.
C17_MalformedChunkSkipped ==
    /\ pc # "merge_raised"
    /\ (MergeOnlyDone /\ job.format \in {"srt", "vtt"}) =>
          BlockBodies(MergedFile.lines) =
              Flatten([n \in 1..Len(ChunkPaths) |->
                  IF ChunkPresent(n) /\ ChunkFile(n) \in MalformedFiles(job.format)
                  THEN <<>> ELSE BlockBodies(ChunkLines(n))])


\* A line of a later block follows line k.
BlockFollows(lines, k) == \E j \in (k + 1)..Len(lines) : lines[j].k = "ts"

\* C28 (as claimed): in the merged srt and vtt outputs every block is
\* separated from the following block by a blank line, as in the per-chunk
\* files, so that merging one chunk at offset zero gives a file with that
\* chunk's blocks unchanged.
C28_BlocksSeparatedByBlankLine ==
    (MergeOnlyDone /\ job.format \in {"srt", "vtt"} /\ AllWellFormed) =>
        /\ \A k \in 1..Len(MergedFile.lines) :
              (MergedFile.lines[k].k = "text" /\ BlockFollows(MergedFile.lines, k)) =>
                  MergedFile.lines[k + 1].k = "blank"
        /\ (Len(ChunkPaths) = 1 /\ ChunkPresent(1)) =>
              WithoutKind(MergedFile.lines, "header")
                  = WithoutKind(ChunkLines(1), "header")

\* C29 (as claimed): in the subtitle and structured merges the timestamps
\* of the chunk at position n (1-based) of the transcript list are shifted
\* by (n - 1) steps, whether or not the transcripts before it are missing.
C29_MissingChunkKeepsItsSlot ==
    (MergeOnlyDone /\ job.format \in {"srt", "vtt", "json"} /\ AllWellFormed) =>
        TimesOf(MergedFile) =
            Flatten([n \in 1..Len(ChunkPaths) |->
                IF ChunkPresent(n)
                THEN ShiftedTimes(TimesOf(ChunkFile(n)), (n - 1) * MergeStepMs)
                ELSE <<>>])


-----------------------------------------------------------------------------
(* Claims about the Sentence Splitter, checked under SpecSplit.            *)

SentencesDone == pc = "sentences_done"

\* The words of a text whose words are separated by single spaces.
RECURSIVE WordsFrom(_, _)
WordsFrom(t, cur) ==
    IF t = <<>> THEN <<cur>>
    ELSE IF Head(t) = " " THEN <<cur>> \o WordsFrom(Tail(t), <<>>)
    ELSE WordsFrom(Tail(t), Append(cur, Head(t)))

WordsOf(t) == IF t = <<>> THEN <<>> ELSE WordsFrom(t, <<>>)

\* A word without the run of . ! ? at its end.
RECURSIVE WordStem(_)
WordStem(w) ==
    IF w # <<>> /\ w[Len(w)] \in SentencePunct
    THEN WordStem(SubSeq(w, 1, Len(w) - 1)) ELSE w

\* The word is a protected abbreviation followed by its period.
IsAbbreviation(w) ==
    /\ w = WordStem(w) \o <<".">>
    /\ \E n \in 1..Len(Abbreviations) :
          Abbreviations[n] = [k \in 1..Len(WordStem(w)) |-> ToLower(WordStem(w)[k])]

\* The places i where word i ends in a run of . ! ?, word i + 1 begins
\* with a capital letter and word i is not a protected abbreviation.
RealBoundaries(ws) ==
    {i \in 1..(Len(ws) - 1) :
        /\ ws[i] # WordStem(ws[i])
        /\ IsUpper(ws[i + 1][1])
        /\ ~IsAbbreviation(ws[i])}

\* The number of words in the first j sentences.
RECURSIVE WordsUpTo(_, _)
WordsUpTo(sentences, j) ==
    IF j = 0 THEN 0
    ELSE Len(WordsOf(sentences[j])) + WordsUpTo(sentences, j - 1)

\* The places where one output sentence ends and the next starts.
OutputBoundaries(sentences) ==
    {WordsUpTo(sentences, j) : j \in 1..(Len(sentences) - 1)}

\* C23 (as claimed): the period of a protected abbreviation is never a
\* sentence boundary and is unchanged in the output, and a text of k
\* sentences splits into exactly k sentences.
C23_AbbreviationsKeepSentenceCount ==
    SentencesDone =>
        LET ws == WordsOf(enhanced.text)
        IN  /\ \A i \in 1..(Len(ws) - 1) :
                  IsAbbreviation(ws[i]) => i \notin OutputBoundaries(returned)
            /\ JoinWith(returned, <<" ">>) = enhanced.text
            /\ enhanced.text # <<>> =>
                  Len(returned) = Cardinality(RealBoundaries(ws)) + 1

\* C24 (as claimed): every run of . ! ? followed by whitespace and a
\* capital letter, the word before it not being a protected abbreviation,
\* ends one output sentence and starts the next.
C24_SplitsAtEveryTerminator ==
    SentencesDone =>
        RealBoundaries(WordsOf(enhanced.text)) \subseteq OutputBoundaries(returned)


-----------------------------------------------------------------------------
(* Claims about concurrent jobs and the web front end, checked under       *)
(* SpecWeb.                                                                *)

AllEnded == \A t \in TaskIds : threads[t].pc = "ended"

\* C21 (as claimed): two jobs on two different source assets never create,
\* overwrite or delete the same chunk audio file, processed file, chunk
\* transcript or merged transcript, also when the assets share a base
\* name and differ in extension or directory.
C21_WorkingFilesNamespacedPerAsset ==
    \A t \in TaskIds, u \in TaskIds :
        threads[t].audio_file # threads[u].audio_file =>
            threads[t].touched \cap threads[u].touched = {}

\* The setting before the first call: after construction enable_diarization
\* is on exactly when the pipeline is loaded, and the pipeline is not
\* loaded again.
SettingBeforeCalls == diarization_pipeline

\* C27 (as claimed): after every transcribe_file call on the shared
\* transcriber has finished, returning or raising, enable_diarization has
\* the value it had before the first call began.
C27_SettingUnchangedByJobs ==
    AllEnded => enable_diarization = SettingBeforeCalls

\* C30 (as claimed): whenever a status request reports "completed" or
\* "error" for a task, the same response holds the task's result.
C30_FinishedTaskHasResult ==
    (poll.pc = "responded" /\ poll.status \in {"completed", "error"}) =>
        poll.result # <<>>

=============================================================================
